---- MODULE Spec2Model ----
(***************************************************************************)
(* A model of the MetaMCP gateway (azharmgh/metamcp_rust).                 *)
(*                                                                         *)
(* SpecAuth  - the credential subsystem and the router's bearer check:     *)
(*             src/auth/{api_key,jwt,service,middleware}.rs,               *)
(*             src/db/repositories/api_key.rs, src/api/routes/mod.rs,      *)
(*             src/api/mod.rs, src/api/handlers/auth.rs, src/utils/error.rs*)
(* SpecRouter- the same subsystem behind the whole route table             *)
(* SpecGw    - the aggregation engine at POST /mcp:                        *)
(*             src/api/handlers/mcp_gateway.rs, src/mcp/proxy.rs,          *)
(*             src/db/repositories/mcp_server.rs                           *)
(* SpecAdmin - the descriptor store under POST, PUT and DELETE             *)
(*             /api/v1/mcp/servers: src/api/handlers/mcp.rs,               *)
(*             src/db/repositories/mcp_server.rs                           *)
(* SpecGuard - the SSRF guard: src/utils/security.rs                       *)
(* SpecStream- the event stream: src/streaming/manager.rs                  *)
(* SpecServerEvents - the event stream with the per-server channels, the   *)
(*             events of servers and the sends to one client               *)
(* SpecServerEventsFair - the same, where a broadcast that can take its    *)
(*             next turn takes it                                          *)
(* SpecManager - the registry of child processes:                          *)
(*             src/mcp/server_manager.rs                                   *)
(*                                                                         *)
(* An Option<T> is a sequence of length at most one: <<>> is None and      *)
(* <<x>> is Some(x).  A string the code takes prefixes of is a sequence of *)
(* characters.                                                             *)
(***************************************************************************)
EXTENDS Integers, Sequences, FiniteSets, TLC

\* ------------------------------------------------------------------------
\* Bounds of the model
\* ------------------------------------------------------------------------
\* credentials ever created
MaxCreds == 2
\* bearer tokens the clients hold at one time
MaxTokens == 1
\* the clock advances in steps of TickSeconds while it is below MaxTime
TickSeconds == 1000
MaxTime == 1000
\* backend descriptors ever created
MaxServers == 2
\* PUT /api/v1/mcp/servers/{id} is served at most this often
MaxUpdates == 2
\* clients ever registered with the stream manager
MaxClients == 2
\* the capacity of a client's channel (mpsc::channel(256)), scaled down
ChannelCapacity == 2
\* calls of StreamManager::broadcast
MaxBroadcasts == 3
\* events sent on one per-server channel
MaxServerEvents == 1
\* calls of StreamManager::handle_mcp_event that go on to broadcast
MaxServerBroadcasts == 2
\* events sent to one client by send_to_client
MaxTargeted == 1
\* forwarded requests whose ids are recorded, per backend
MaxForwarded == 2
\* child processes ever spawned by the server manager
MaxSpawns == 3
\* calls of McpServerManager::send_message
MaxMessages == 1

\* ------------------------------------------------------------------------
\* Program constants
\* ------------------------------------------------------------------------
\* JwtService::new: token validity in minutes
token_duration_minutes == 15
\* jsonwebtoken's Validation::default(): leeway in seconds
leeway == 60

None == <<>>
Some(x) == <<x>>

VARIABLES
    \* table api_keys: id -> row
    api_keys,
    \* number of rows ever inserted into api_keys (ids are never reused)
    keys_created,
    \* Utc::now() / NOW(), in seconds
    now,
    \* the bearer tokens clients hold
    issued,
    \* the HTTP request in flight and, once answered, its response
    req,
    \* table mcp_servers: id -> row
    mcp_servers,
    \* number of rows ever inserted into mcp_servers
    servers_created,
    \* number of PUT /api/v1/mcp/servers/{id} served
    servers_updated,
    \* the JSON-RPC request in flight at POST /mcp: its handler's locals, the
    \* requests it has sent to backends and, once answered, its response
    gw,
    \* backend id -> the ids of the first MaxForwarded JSON-RPC requests the
    \* gateway has put on the wire to it, over all requests of the clients
    forwarded,
    \* the URL given to the SSRF guard and what the guard returned
    probe,
    \* StreamManager.client_channels: client id -> its filters, the events
    \* queued in its mpsc channel (each with the number of the call of
    \* broadcast that sent it), whether its Receiver is still held, and the
    \* numbers of the events the holder of the Receiver has taken
    client_channels,
    \* number of clients ever registered (ids are fresh)
    clients_registered,
    \* number of calls of StreamManager::broadcast
    events_broadcast,
    \* the call of StreamManager::broadcast in progress: its event, the
    \* order in which it iterates over the clients, its position, the
    \* clients whose tx.send it has called
    bc,
    \* StreamManager.server_channels: for each server id None, or Some(n)
    \* for a registered broadcast::Sender on which n events were sent
    server_channels,
    \* McpServerManager.servers: server id -> its handle (config, status); the
    \* handle's child is the process children[id]
    manager_servers,
    \* the child processes ever spawned: id -> the config it was started
    \* from, whether it runs, has exited or was killed, and the lines written
    \* to its stdin
    children,
    \* number of child processes ever spawned (ids are fresh uuids)
    spawned,
    \* number of calls of send_message
    messages_sent,
    \* the call of restart_server in progress (its position, the id it was
    \* given, the config it read) and what the last call of the manager
    \* returned
    mgr

authVars == <<api_keys, keys_created, now, issued, req>>

gwVars == <<mcp_servers, servers_created, servers_updated, gw, forwarded>>

guardVars == <<probe>>

streamVars ==
    <<client_channels, clients_registered, events_broadcast, bc, server_channels>>

managerVars == <<manager_servers, children, spawned, messages_sent, mgr>>

vars == <<authVars, gwVars, guardVars, streamVars, managerVars>>

\* ------------------------------------------------------------------------
\* src/auth/api_key.rs
\* ------------------------------------------------------------------------
\* generate_api_key: "mcp_" followed by a fresh random uuid; n is the draw
generate_api_key(n) == <<"mcp_", n>>

\* Argon2 with the given salt
Argon2(salt, api_key) == <<"argon2", salt, api_key>>

\* hash_api_key: a PHC string holding the salt and the digest
hash_api_key(api_key, salt) == [salt |-> salt, digest |-> Argon2(salt, api_key)]

\* verify_api_key: recompute with the salt of the stored hash
verify_api_key(api_key, hash) == Argon2(hash.salt, api_key) = hash.digest

\* ------------------------------------------------------------------------
\* Uuid <-> String
\* ------------------------------------------------------------------------
UuidToString(id) == <<"uuid", id>>

\* Uuid::parse_str: None when the string is no uuid
UuidParseStr(s) == IF Len(s) = 2 /\ s[1] = "uuid" THEN Some(s[2]) ELSE None

\* ------------------------------------------------------------------------
\* src/auth/jwt.rs
\* ------------------------------------------------------------------------
JWT_SECRET == "jwt_secret"

\* HMAC-SHA256 of the claims under a secret
Sign(secret, sub, exp, iat, jti) == <<secret, sub, exp, iat, jti>>

token_duration_seconds == token_duration_minutes * 60

\* JwtService::generate_token
generate_token(api_key_id, t, jti) ==
    LET sub == UuidToString(api_key_id)
        exp == t + token_duration_minutes * 60
    IN  [fmt |-> "jwt", sub |-> sub, exp |-> exp, iat |-> t, jti |-> jti,
         sig |-> Sign(JWT_SECRET, sub, exp, t, jti)]

\* JwtDecodeOk with the signature left unchecked
JwtDecodeOk_unverified(token, t) ==
    /\ token.fmt = "jwt"
    /\ ~(token.exp < t - leeway)

\* JwtService::validate_token: decode with Validation::default()
\* (HS256 signature, exp checked with the default leeway)
JwtDecodeOk(token, t) ==
    /\ token.fmt = "jwt"
    /\ token.sig = Sign(JWT_SECRET, token.sub, token.exp, token.iat, token.jti)
    /\ ~(token.exp < t - leeway)

\* ------------------------------------------------------------------------
\* src/db/repositories/api_key.rs
\* ------------------------------------------------------------------------
RECURSIVE DescSeq(_)
\* the ids of S, largest first
DescSeq(S) ==
    IF S = {} THEN <<>>
    ELSE LET m == CHOOSE x \in S : \A y \in S : y <= x
         IN  <<m>> \o DescSeq(S \ {m})

\* ApiKeyRepository::list_all: ORDER BY created_at DESC (ids grow with
\* created_at); the rows are returned as their ids
api_keys_list_all(include_inactive) ==
    DescSeq({id \in DOMAIN api_keys : include_inactive \/ api_keys[id].is_active})

\* ApiKeyRepository::find_by_id
api_keys_find_by_id(id) ==
    IF id \in DOMAIN api_keys THEN Some(api_keys[id]) ELSE None

\* update_last_used without its WHERE clause
update_last_used_every_row(id) ==
    [k \in DOMAIN api_keys |-> [api_keys[k] EXCEPT !.last_used_at = Some(now)]]

\* ApiKeyRepository::update_last_used: UPDATE ... WHERE id = $1
update_last_used(id) ==
    [k \in DOMAIN api_keys |->
        IF k = id THEN [api_keys[k] EXCEPT !.last_used_at = Some(now)]
        ELSE api_keys[k]]

\* ApiKeyRepository::set_inactive / set_active: UPDATE ... WHERE id = $1
set_is_active(id, b) ==
    [k \in DOMAIN api_keys |->
        IF k = id THEN [api_keys[k] EXCEPT !.is_active = b] ELSE api_keys[k]]

\* ApiKeyRepository::delete
delete_key(id) == [k \in DOMAIN api_keys \ {id} |-> api_keys[k]]

\* ------------------------------------------------------------------------
\* src/utils/error.rs
\* ------------------------------------------------------------------------
AppError(kind, msg) == [kind |-> kind, msg |-> msg]

\* impl IntoResponse for AppError: (status, Json(ErrorResponse))
IntoResponse(e) ==
    CASE e.kind = "Unauthorized" ->
            [status |-> 401, error |-> "Unauthorized", description |-> Some(e.msg),
             access_token |-> None]
      [] e.kind = "Jwt" ->
            [status |-> 401, error |-> "Invalid Token", description |-> Some(e.msg),
             access_token |-> None]
      [] e.kind = "Database" ->
            [status |-> 500, error |-> "Database Error", description |-> None,
             access_token |-> None]
      [] OTHER ->
            [status |-> 500, error |-> "Internal Server Error", description |-> None,
             access_token |-> None]

Ok(v) == [ok |-> TRUE, val |-> Some(v), err |-> AppError("", "")]
Err(e) == [ok |-> FALSE, val |-> None, err |-> e]

\* ------------------------------------------------------------------------
\* src/auth/service.rs
\* ------------------------------------------------------------------------
\* found_key that takes the first listed key without verifying it
found_key_unverified(api_key, keys) ==
    IF keys = <<>> THEN None ELSE Some(keys[1])

\* authenticate_with_api_key, lines 55-61: the first listed key whose hash
\* verifies the presented key
found_key(api_key, keys) ==
    LET hits == {i \in 1..Len(keys) : verify_api_key(api_key, api_keys[keys[i]].key_hash)}
    IN  IF hits = {} THEN None
        ELSE Some(keys[CHOOSE i \in hits : \A j \in hits : i <= j])

\* authenticate_with_api_key, lines 53-67: list the active keys and match;
\* Ok(id of the stored key) or the error returned
authenticate_lookup(api_key, db_ok) ==
    IF ~db_ok THEN Err(AppError("Database", "list_all"))
    ELSE LET found == found_key(api_key, api_keys_list_all(FALSE))
         IN  IF found = None THEN Err(AppError("Unauthorized", "Invalid API key"))
             ELSE IF ~api_keys[found[1]].is_active
                  THEN Err(AppError("Unauthorized", "API key is inactive"))
                  ELSE Ok(found[1])

\* the claims of a token
Claims(token) == [sub |-> token.sub, exp |-> token.exp, iat |-> token.iat, jti |-> token.jti]

\* validate_token that does not look at is_active
validate_token_ignoring_revocation(token, db_ok) ==
    IF ~JwtDecodeOk(token, now) THEN Err(AppError("Jwt", "decode"))
    ELSE LET key_id == UuidParseStr(token.sub)
         IN  IF key_id = None THEN Err(AppError("Unauthorized", "Invalid token subject"))
             ELSE IF ~db_ok THEN Err(AppError("Database", "find_by_id"))
             ELSE IF api_keys_find_by_id(key_id[1]) = None
                  THEN Err(AppError("Unauthorized", "API key not found"))
                  ELSE Ok(Claims(token))

\* AuthService::validate_token
validate_token(token, db_ok) ==
    IF ~JwtDecodeOk(token, now) THEN Err(AppError("Jwt", "decode"))
    ELSE LET key_id == UuidParseStr(token.sub)
         IN  IF key_id = None THEN Err(AppError("Unauthorized", "Invalid token subject"))
             ELSE IF ~db_ok THEN Err(AppError("Database", "find_by_id"))
             ELSE LET api_key == api_keys_find_by_id(key_id[1])
                  IN  IF api_key = None
                      THEN Err(AppError("Unauthorized", "API key not found"))
                      ELSE IF ~api_key[1].is_active
                           THEN Err(AppError("Unauthorized", "API key has been revoked"))
                           ELSE Ok(Claims(token))

\* ------------------------------------------------------------------------
\* src/auth/middleware.rs
\* ------------------------------------------------------------------------
\* auth_error_response
auth_error_response(message) ==
    [status |-> 401, error |-> "unauthorized", description |-> Some(message),
     access_token |-> None]

\* auth_middleware, lines 42-47: the reply when no bearer token was extracted
missing_header_response == auth_error_response("Missing or invalid Authorization header")

\* the reply that hands the error itself to the client
validation_failed_response_leaking(e) == IntoResponse(e)

\* auth_middleware, lines 56-59: the reply when validate_token returned Err(e);
\* e goes to the log only
validation_failed_response(e) == auth_error_response("Invalid or expired token")

\* extract_bearer_token: the Authorization header with "Bearer " stripped
extract_bearer_token(header) ==
    IF header = None THEN None
    ELSE IF header[1].scheme = "Bearer " THEN Some(header[1].rest) ELSE None

\* ------------------------------------------------------------------------
\* src/api/routes/mod.rs, src/api/mod.rs
\* ------------------------------------------------------------------------
TokenRoute == "POST /api/v1/auth/token"

\* public_routes
public_routes == {"GET /health", TokenRoute, "GET /mcp/health"}

\* protected_routes: everything under the auth_middleware layer
protected_routes ==
    {"GET /mcp", "POST /mcp",
     "GET /api/v1/mcp/servers", "POST /api/v1/mcp/servers",
     "GET /api/v1/mcp/servers/{server_id}", "PUT /api/v1/mcp/servers/{server_id}",
     "DELETE /api/v1/mcp/servers/{server_id}",
     "POST /api/v1/mcp/servers/{server_id}/tools/{tool_name}/execute"}

\* create_router: SwaggerUi::new("/swagger-ui").url("/api-docs/openapi.json", ..)
swagger_routes == {"GET /swagger-ui", "GET /api-docs/openapi.json"}

\* a path no route matches
UnknownRoute == "GET /unknown"

Routes == public_routes \cup protected_routes \cup swagger_routes \cup {UnknownRoute}

\* fallback_handler
fallback_response ==
    [status |-> 404, error |-> "not_found",
     description |-> Some("The requested endpoint does not exist"), access_token |-> None]

\* ------------------------------------------------------------------------
\* What clients can send
\* ------------------------------------------------------------------------
NoToken == [fmt |-> "garbage", sub |-> <<>>, exp |-> 0, iat |-> 0, jti |-> 0, sig |-> <<>>]

\* signed with the gateway's secret by another party, subject not a uuid
ForeignToken ==
    [fmt |-> "jwt", sub |-> <<"service">>, exp |-> MaxTime + TickSeconds + token_duration_seconds,
     iat |-> 0, jti |-> 0,
     sig |-> Sign(JWT_SECRET, <<"service">>, MaxTime + TickSeconds + token_duration_seconds, 0, 0)]

\* an issued token whose subject was rewritten, signature untouched
Tampered(t, id) == [t EXCEPT !.sub = UuidToString(id)]

\* an issued token signed again with a secret that is not the gateway's
Resigned(t) == [t EXCEPT !.sig = Sign("other_secret", t.sub, t.exp, t.iat, t.jti)]

PresentableTokens ==
    issued \cup {NoToken, ForeignToken}
           \cup {Resigned(t) : t \in issued}
           \cup {Tampered(t, id) : t \in issued, id \in (1..MaxCreds)}

Headers ==
    {None, Some([scheme |-> "Basic ", rest |-> NoToken])}
        \cup {Some([scheme |-> "Bearer ", rest |-> t]) : t \in PresentableTokens}

\* the keys a client may present: every key ever handed out, and one never generated
PresentableKeys == {generate_api_key(n) : n \in 0..MaxCreds}

IdleReq ==
    [pc |-> "idle", route |-> "", header |-> None, api_key |-> None,
     stored_key |-> None, claims |-> None, handled |-> FALSE,
     resp |-> None, log |-> None]

\* no JSON-RPC request in flight
IdleGw ==
    [pc |-> "idle", request |-> None, servers |-> <<>>, i |-> 0,
     replies |-> <<>>, all_items |-> <<>>, db_calls |-> 0, outbound |-> <<>>,
     resp |-> None]

\* the service starts on empty tables, with no request in flight
Init ==
    /\ api_keys = <<>>
    /\ keys_created = 0
    /\ now = 0
    /\ issued = {}
    /\ req = IdleReq
    /\ mcp_servers = <<>>
    /\ servers_created = 0
    /\ servers_updated = 0
    /\ gw = IdleGw
    /\ forwarded = [id \in 1..MaxServers |-> <<>>]
    /\ probe = None
    /\ client_channels = <<>>
    /\ clients_registered = 0
    /\ events_broadcast = 0
    /\ bc = [pc |-> "idle", event |-> None, order |-> <<>>, i |-> 1, sent |-> {}]
    /\ server_channels = [server_id \in {"s1", "s2"} |-> None]
    /\ manager_servers = <<>>
    /\ children = <<>>
    /\ spawned = 0
    /\ messages_sent = 0
    /\ mgr = [pc |-> "idle", id |-> 0, config |-> None, returned |-> None,
              stopping |-> 0]

\* ------------------------------------------------------------------------
\* The clock
\* ------------------------------------------------------------------------
Tick ==
    /\ now < MaxTime
    /\ now' = now + TickSeconds
    /\ UNCHANGED <<api_keys, keys_created, issued, req>>

\* ------------------------------------------------------------------------
\* Credential administration: src/bin/metamcp-cli.rs over
\* src/auth/service.rs and src/db/repositories/api_key.rs
\* ------------------------------------------------------------------------
\* AuthService::generate_api_key + ApiKeyRepository::create: the row gets a
\* fresh id, a hash under a fresh salt, is_active = true, last_used_at NULL
GenerateApiKey ==
    /\ keys_created < MaxCreds
    /\ LET id == keys_created + 1
           raw_key == generate_api_key(id)
       IN  api_keys' =
             [k \in DOMAIN api_keys \cup {id} |->
                 IF k = id
                 THEN [key_hash |-> hash_api_key(raw_key, id), is_active |-> TRUE,
                       last_used_at |-> None]
                 ELSE api_keys[k]]
    /\ keys_created' = keys_created + 1
    /\ UNCHANGED <<now, issued, req>>

\* KeyActions::Inactivate (also AuthService::revoke_api_key)
Inactivate(id) ==
    /\ id \in DOMAIN api_keys
    /\ api_keys' = set_is_active(id, FALSE)
    /\ UNCHANGED <<keys_created, now, issued, req>>

\* KeyActions::Activate
Activate(id) ==
    /\ id \in DOMAIN api_keys
    /\ api_keys' = set_is_active(id, TRUE)
    /\ UNCHANGED <<keys_created, now, issued, req>>

\* KeyActions::Delete
DeleteKey(id) ==
    /\ id \in DOMAIN api_keys
    /\ api_keys' = delete_key(id)
    /\ UNCHANGED <<keys_created, now, issued, req>>

\* a client forgets a token
DropToken(t) ==
    /\ t \in issued
    /\ issued' = issued \ {t}
    /\ UNCHANGED <<api_keys, keys_created, now, req>>

\* ------------------------------------------------------------------------
\* One HTTP request through create_router
\* ------------------------------------------------------------------------
NewReq(route, header, api_key) ==
    [IdleReq EXCEPT !.route = route, !.header = header, !.api_key = api_key]

\* a route outside the auth layer: the request reaches its handler, whatever
\* its headers (here: no Authorization header)
RoutePublic(route, api_key) ==
    /\ req.pc \in {"idle", "done"}
    /\ route \in public_routes \cup swagger_routes
    /\ api_key = None <=> route # TokenRoute
    /\ req' = [NewReq(route, None, api_key) EXCEPT !.pc = "handler"]
    /\ UNCHANGED <<api_keys, keys_created, now, issued>>

\* no route matches: fallback_handler
RouteFallback(route, header) ==
    /\ req.pc \in {"idle", "done"}
    /\ route \notin public_routes \cup swagger_routes \cup protected_routes
    /\ req' = [NewReq(route, header, None) EXCEPT !.pc = "done",
                                                  !.resp = Some(fallback_response)]
    /\ UNCHANGED <<api_keys, keys_created, now, issued>>

\* auth_middleware: the layer in front of every protected route
auth_middleware(route, header, db_ok) ==
    /\ req.pc \in {"idle", "done"}
    /\ route \in protected_routes
    /\ LET token == extract_bearer_token(header)
           r == NewReq(route, header, None)
       IN  IF token = None
           THEN req' = [r EXCEPT !.pc = "done", !.resp = Some(missing_header_response),
                           !.log = Some([line |-> "Missing authorization header",
                                         e |-> AppError("", "")])]
           ELSE LET res == validate_token(token[1], db_ok)
                IN  IF res.ok
                    THEN req' = [r EXCEPT !.pc = "handler", !.claims = res.val]
                    ELSE req' = [r EXCEPT !.pc = "done",
                                    !.resp = Some(validation_failed_response(res.err)),
                                    !.log = Some([line |-> "Authentication failed",
                                                  e |-> res.err])]
    /\ UNCHANGED <<api_keys, keys_created, now, issued>>

\* the handler of a route other than the token route runs
HandlerRun ==
    /\ req.pc = "handler"
    /\ req.route # TokenRoute
    /\ req' = [req EXCEPT !.pc = "done", !.handled = TRUE,
                          !.resp = Some([status |-> 200, error |-> "",
                                         description |-> None, access_token |-> None])]
    /\ UNCHANGED <<api_keys, keys_created, now, issued>>

\* handlers::authenticate -> authenticate_with_api_key, lines 50-67: list the
\* active keys and find the one the presented key verifies against
authenticate_with_api_key(db_ok) ==
    /\ req.pc = "handler"
    /\ req.route = TokenRoute
    /\ LET res == authenticate_lookup(req.api_key[1], db_ok)
       IN  IF res.ok
           THEN /\ Cardinality(issued) < MaxTokens
                /\ req' = [req EXCEPT !.pc = "update_last_used", !.handled = TRUE,
                                      !.stored_key = res.val]
           ELSE req' = [req EXCEPT !.pc = "done", !.handled = TRUE,
                                   !.resp = Some(IntoResponse(res.err)),
                                   !.log = Some([line |-> "", e |-> res.err])]
    /\ UNCHANGED <<api_keys, keys_created, now, issued>>

\* authenticate_with_api_key, lines 69-73, and handlers::authenticate's reply:
\* update last_used_at of the stored key, then sign a token for its id
authenticate_issue(db_ok) ==
    /\ req.pc = "update_last_used"
    /\ IF ~db_ok
       THEN /\ req' = [req EXCEPT !.pc = "done",
                          !.resp = Some(IntoResponse(AppError("Database", "update_last_used"))),
                          !.log = Some([line |-> "",
                                        e |-> AppError("Database", "update_last_used")])]
            /\ UNCHANGED <<api_keys, issued>>
       ELSE LET jti == CHOOSE j \in 1..MaxTokens : \A t \in issued : t.jti # j
                token == generate_token(req.stored_key[1], now, jti)
            IN  /\ api_keys' = update_last_used(req.stored_key[1])
                /\ issued' = issued \cup {token}
                /\ req' = [req EXCEPT !.pc = "done",
                              !.resp = Some([status |-> 200, error |-> "",
                                             description |-> None,
                                             access_token |-> Some(token)])]
    /\ UNCHANGED <<keys_created, now>>

\* the steps that are not the arrival of a request
AuthSteps ==
    \/ Tick
    \/ GenerateApiKey
    \/ \E id \in 1..MaxCreds : Inactivate(id)
    \/ \E id \in 1..MaxCreds : Activate(id)
    \/ \E id \in 1..MaxCreds : DeleteKey(id)
    \/ \E t \in issued : DropToken(t)
    \/ HandlerRun
    \/ \E db_ok \in BOOLEAN : authenticate_with_api_key(db_ok)
    \/ \E db_ok \in BOOLEAN : authenticate_issue(db_ok)

\* the arrival of a request for one of the routes of Open (outside the auth
\* layer) or Guarded (inside it), or for no route
Arrival(Open, Guarded) ==
    \/ \E route \in Open, api_key \in {None} \cup {Some(k) : k \in PresentableKeys} :
          RoutePublic(route, api_key)
    \/ \E header \in {None} \cup {Some([scheme |-> "Bearer ", rest |-> t]) : t \in issued} :
          RouteFallback(UnknownRoute, header)
    \/ \E route \in Guarded, header \in Headers, db_ok \in BOOLEAN :
          auth_middleware(route, header, db_ok)

\* the credential subsystem seen through the token route and one protected route
AuthNext ==
    /\ AuthSteps \/ Arrival({TokenRoute}, {"POST /mcp"})
    /\ UNCHANGED <<gwVars, guardVars, streamVars, managerVars>>

SpecAuth == Init /\ [][AuthNext]_vars

\* the whole route table
RouterNext ==
    /\ AuthSteps \/ Arrival(public_routes \cup swagger_routes, protected_routes)
    /\ UNCHANGED <<gwVars, guardVars, streamVars, managerVars>>

SpecRouter == Init /\ [][RouterNext]_vars

\* ========================================================================
\* The aggregation engine
\* ========================================================================
\* ------------------------------------------------------------------------
\* Strings the engine takes prefixes of: sequences of characters
\* ------------------------------------------------------------------------
\* str::starts_with
starts_with(s, prefix) ==
    /\ Len(prefix) <= Len(s)
    /\ SubSeq(s, 1, Len(prefix)) = prefix

\* &s[n..]
str_from(s, n) == SubSeq(s, n + 1, Len(s))

\* format!("{}<sep>{}", name, x)
format_prefixed(name, sep, x) == name \o <<sep>> \o x

\* the code point of a character, for ORDER BY
CharCode(c) ==
    CASE c = ":" -> 58
      [] c = "_" -> 95
      [] c = "a" -> 97
      [] c = "b" -> 98
      [] c = "q" -> 113
      [] c = "u" -> 117
      [] c = "x" -> 120

RECURSIVE StrLess(_, _)
\* s sorts strictly before t
StrLess(s, t) ==
    IF t = <<>> THEN FALSE
    ELSE IF s = <<>> THEN TRUE
    ELSE IF CharCode(Head(s)) # CharCode(Head(t))
         THEN CharCode(Head(s)) < CharCode(Head(t))
    ELSE StrLess(Tail(s), Tail(t))

\* ------------------------------------------------------------------------
\* src/utils/security.rs: the SSRF guard
\* ------------------------------------------------------------------------
\* a parsed URL whose host is an IP literal: url::Host::Ipv4 with its four
\* octets, url::Host::Ipv6 with its eight 16-bit segments
Ipv4Addr(a, b, c, d) == [kind |-> "Ipv4", octets |-> <<a, b, c, d>>]

Ipv6Addr(segments) == [kind |-> "Ipv6", segments |-> segments]

Url(scheme, host) == [scheme |-> scheme, host |-> host]

\* a conversion that finds no embedded address
to_ipv4_mapped_never(ip) == None

\* Ipv6Addr::to_ipv4_mapped
to_ipv4_mapped(ip) ==
    IF SubSeq(ip.segments, 1, 6) = <<0, 0, 0, 0, 0, 65535>>
    THEN Some(Ipv4Addr(ip.segments[7] \div 256, ip.segments[7] % 256,
                       ip.segments[8] \div 256, ip.segments[8] % 256))
    ELSE None

\* is_localhost on url.host_str(): of the names it compares with, an IP
\* literal can be "127.0.0.1", "0.0.0.0", "[::1]" or start with "127."
is_localhost(host) ==
    IF host.kind = "Ipv4"
    THEN \/ host.octets = <<127, 0, 0, 1>>
         \/ host.octets = <<0, 0, 0, 0>>
         \/ host.octets[1] = 127
    ELSE host.segments = <<0, 0, 0, 0, 0, 0, 0, 1>>

\* is_cloud_metadata_endpoint: of the names it compares with, an IP literal
\* can be "169.254.169.254"
is_cloud_metadata_endpoint(host) ==
    host.kind = "Ipv4" /\ host.octets = <<169, 254, 169, 254>>

\* validate_ipv4: "Ok" or the name of the UrlValidationError
validate_ipv4(ip) ==
    LET octets == ip.octets
    IN  CASE octets[1] = 127 -> "LocalhostBlocked"
          [] \/ octets[1] = 10
             \/ octets[1] = 172 /\ octets[2] \div 16 = 1
             \/ octets[1] = 192 /\ octets[2] = 168 -> "PrivateIpBlocked"
          [] octets[1] = 169 /\ octets[2] = 254 -> "LinkLocalBlocked"
          [] octets = <<0, 0, 0, 0>> -> "LocalhostBlocked"
          [] octets = <<255, 255, 255, 255>> -> "PrivateIpBlocked"
          [] \/ SubSeq(octets, 1, 3) = <<192, 0, 2>>
             \/ SubSeq(octets, 1, 3) = <<198, 51, 100>>
             \/ SubSeq(octets, 1, 3) = <<203, 0, 113>> -> "PrivateIpBlocked"
          [] octets[1] = 100 /\ octets[2] >= 64 /\ octets[2] <= 127 -> "PrivateIpBlocked"
          [] octets[1] = 192 /\ octets[2] = 0 /\ octets[3] = 0 -> "PrivateIpBlocked"
          [] octets[1] = 198 /\ (octets[2] = 18 \/ octets[2] = 19) -> "PrivateIpBlocked"
          [] octets[1] >= 224 /\ octets[1] <= 239 -> "PrivateIpBlocked"
          [] octets[1] >= 240 -> "PrivateIpBlocked"
          [] OTHER -> "Ok"

\* validate_ipv6
validate_ipv6(ip) ==
    LET segments == ip.segments
    IN  CASE segments = <<0, 0, 0, 0, 0, 0, 0, 1>> -> "LocalhostBlocked"
          [] segments = <<0, 0, 0, 0, 0, 0, 0, 0>> -> "LocalhostBlocked"
          [] to_ipv4_mapped(ip) # None -> validate_ipv4(to_ipv4_mapped(ip)[1])
          [] segments[1] \div 512 = 126 -> "PrivateIpBlocked"
          [] segments[1] \div 64 = 1018 -> "LinkLocalBlocked"
          [] segments[1] \div 256 = 255 -> "PrivateIpBlocked"
          [] OTHER -> "Ok"

validate_ip_address(ip) ==
    IF ip.kind = "Ipv4" THEN validate_ipv4(ip) ELSE validate_ipv6(ip)

\* validate_hostname for a host that is no name to resolve: "[<ipv6>]:<port>"
\* is a socket address, and to_socket_addrs yields the address itself
validate_hostname(host) == validate_ip_address(host)

\* validate_url_for_ssrf: host.parse::<IpAddr>() succeeds for the dotted
\* quad and fails for the bracketed IPv6 literal
validate_url_for_ssrf(url) ==
    IF url.scheme # "http" /\ url.scheme # "https" THEN "InvalidScheme"
    ELSE IF is_localhost(url.host) THEN "LocalhostBlocked"
    ELSE IF is_cloud_metadata_endpoint(url.host) THEN "MetadataEndpointBlocked"
    ELSE IF url.host.kind = "Ipv4" THEN validate_ip_address(url.host)
    ELSE validate_hostname(url.host)

\* the URLs an administrator gives to backends: a public address and the
\* metadata endpoint of a cloud
ServerUrls ==
    {Url("http", Ipv4Addr(93, 184, 216, 34)), Url("http", Ipv4Addr(169, 254, 169, 254))}

\* the names an administrator gives to backends
ServerNames == { <<"a">>, <<"a", "_", "b">> }

\* the transports an administrator registers
Protocols == {"http", "stdio"}

\* ------------------------------------------------------------------------
\* src/db/repositories/mcp_server.rs
\* ------------------------------------------------------------------------
\* McpServer, with its id
McpServer(id) == [id |-> id] @@ mcp_servers[id]

\* the orders in which a SELECT ... ORDER BY name may return the rows ids:
\* rows of equal name come in either order
OrderedByName(ids) ==
    {s \in [1..Cardinality(ids) -> ids] :
        /\ \A k, l \in DOMAIN s : k # l => s[k] # s[l]
        /\ \A k, l \in DOMAIN s :
              k < l => ~StrLess(mcp_servers[s[l]].name, mcp_servers[s[k]].name)}

\* list_all that returns the inactive rows too
mcp_servers_list_all_rows(include_inactive) ==
    {[k \in DOMAIN s |-> McpServer(s[k])] : s \in OrderedByName(DOMAIN mcp_servers)}

\* list_all(include_inactive): the results the query may return
mcp_servers_list_all(include_inactive) ==
    LET ids == {id \in DOMAIN mcp_servers :
                    include_inactive \/ mcp_servers[id].is_active}
    IN  {[k \in DOMAIN s |-> McpServer(s[k])] : s \in OrderedByName(ids)}

\* create: protocol defaults to "http"; the row is inserted active, with
\* both timestamps NOW()
mcp_servers_create(id, request) ==
    id :> [name |-> request.name,
           url |-> request.url,
           protocol |-> IF request.protocol = "" THEN "http" ELSE request.protocol,
           command |-> request.command,
           args |-> request.args,
           env |-> request.env,
           is_active |-> TRUE,
           created_at |-> now,
           updated_at |-> now]

\* update, lines 92-119: the SET clauses, one "<column> = $n" for each field
\* the request carries, in this order
update_columns(request) ==
    SelectSeq(<<"name", "url", "protocol", "command", "args", "env", "is_active">>,
              LAMBDA column : request[column] # None)

\* binds that give $n of "protocol" and of "command" to each other
update_binds_swapped(request) ==
    (IF request.name # None THEN <<request.name[1]>> ELSE <<>>)
    \o (IF request.url # None THEN <<request.url[1]>> ELSE <<>>)
    \o (IF request.command # None THEN <<request.command[1]>> ELSE <<>>)
    \o (IF request.protocol # None THEN <<request.protocol[1]>> ELSE <<>>)
    \o (IF request.args # None THEN <<request.args[1]>> ELSE <<>>)
    \o (IF request.env # None THEN <<request.env[1]>> ELSE <<>>)
    \o (IF request.is_active # None THEN <<request.is_active[1]>> ELSE <<>>)

\* update, lines 133-153: the values bound to $1, $2, ...
update_binds(request) ==
    (IF request.name # None THEN <<request.name[1]>> ELSE <<>>)
    \o (IF request.url # None THEN <<request.url[1]>> ELSE <<>>)
    \o (IF request.protocol # None THEN <<request.protocol[1]>> ELSE <<>>)
    \o (IF request.command # None THEN <<request.command[1]>> ELSE <<>>)
    \o (IF request.args # None THEN <<request.args[1]>> ELSE <<>>)
    \o (IF request.env # None THEN <<request.env[1]>> ELSE <<>>)
    \o (IF request.is_active # None THEN <<request.is_active[1]>> ELSE <<>>)

\* update: without a field the row is only read; else the statement sets
\* each listed column to the value bound to its $n (a value bound to a
\* nullable column is stored as Some) and updated_at to NOW()
mcp_servers_update(id, request) ==
    LET updates == update_columns(request)
        binds == update_binds(request)
        row == mcp_servers[id]
        bound(column) == binds[CHOOSE n \in DOMAIN updates : updates[n] = column]
    IN  IF Len(updates) = 0 THEN mcp_servers
        ELSE [mcp_servers EXCEPT
                ![id] = [column \in DOMAIN row |->
                            IF \E n \in DOMAIN updates : updates[n] = column
                            THEN IF column \in {"command", "args", "env"}
                                 THEN Some(bound(column)) ELSE bound(column)
                            ELSE IF column = "updated_at" THEN now
                            ELSE row[column]]]

\* delete
mcp_servers_delete(id) ==
    [k \in DOMAIN mcp_servers \ {id} |-> mcp_servers[k]]

\* ------------------------------------------------------------------------
\* src/api/handlers/mcp.rs: the administrative writes
\* ------------------------------------------------------------------------
\* a write to mcp_servers is one statement; a handler of POST /mcp reads the
\* table once and works on its copy, so a write during its fan-out is a write
\* after its read: the writes are taken between the requests
create_mcp_server(payload) ==
    /\ gw.pc = "idle"
    /\ servers_created < MaxServers
    /\ servers_created' = servers_created + 1
    /\ mcp_servers' = mcp_servers @@ mcp_servers_create(servers_created + 1, payload)
    /\ UNCHANGED <<servers_updated, gw, forwarded>>

update_mcp_server(server_id, payload) ==
    /\ gw.pc = "idle"
    /\ servers_updated < MaxUpdates
    /\ server_id \in DOMAIN mcp_servers
    /\ servers_updated' = servers_updated + 1
    /\ mcp_servers' = mcp_servers_update(server_id, payload)
    /\ UNCHANGED <<servers_created, gw, forwarded>>

delete_mcp_server(server_id) ==
    /\ gw.pc = "idle"
    /\ server_id \in DOMAIN mcp_servers
    /\ mcp_servers' = mcp_servers_delete(server_id)
    /\ UNCHANGED <<servers_created, servers_updated, gw, forwarded>>

\* ------------------------------------------------------------------------
\* src/mcp/protocol/types.rs
\* ------------------------------------------------------------------------
\* RequestId::Number
Number(n) == <<"Number", n>>

\* a JSON object is a record of its members, an absent member being None:
\* `list` is the member "tools", "resources" or "prompts" of a listing,
\* `content` any other payload
Value(list, content) == [list |-> list, content |-> content]

\* an item of a listing (a tool, a resource or a prompt)
Item(name, uri) ==
    [name |-> name, uri |-> uri, original |-> None, server_id |-> None]

JsonRpcRequest_new(id, method, params) ==
    [jsonrpc |-> "2.0", id |-> Some(id), method |-> method, params |-> params]

\* a success envelope that carries the id 1 of the forwarded requests
JsonRpcResponse_success_forwarded_id(id, result) ==
    [jsonrpc |-> "2.0", id |-> Number(1), result |-> Some(result), error |-> None]

JsonRpcResponse_success(id, result) ==
    [jsonrpc |-> "2.0", id |-> id, result |-> Some(result), error |-> None]

\* an error envelope that keeps a result beside the error
JsonRpcResponse_error_with_result(id, code, message, data) ==
    [jsonrpc |-> "2.0", id |-> id, result |-> Some([list |-> None, content |-> None]),
     error |-> Some([code |-> code, message |-> message, data |-> data])]

JsonRpcResponse_error(id, code, message, data) ==
    [jsonrpc |-> "2.0", id |-> id, result |-> None,
     error |-> Some([code |-> code, message |-> message, data |-> data])]

\* ------------------------------------------------------------------------
\* The backends: what arrives in answer to one HTTP POST
\* ------------------------------------------------------------------------
\* the tool and prompt names and the resource uris the backends export
ToolNames == { <<"x">> }
ResourceUris == { <<"u">> }

\* the forwarded requests all carry the id 1
ForwardedId == Number(1)

\* the arrays a backend may return for a listing: the member absent, one
\* item, or an item that lacks its name (uri) followed by one that has it
BackendLists(method) ==
    IF method = "resources/list"
    THEN {None} \cup {Some(<<Item(None, Some(u))>>) : u \in ResourceUris}
                \cup {Some(<<Item(None, None), Item(None, Some(u))>>) : u \in ResourceUris}
    ELSE {None} \cup {Some(<<Item(Some(n), None)>>) : n \in ToolNames}
                \cup {Some(<<Item(None, None), Item(Some(n), None)>>) : n \in ToolNames}

\* the JSON-RPC envelopes a backend may return: a result, an error, neither,
\* both
BackendBodies(method) ==
    (IF method \in {"tools/list", "resources/list", "prompts/list"}
     THEN {JsonRpcResponse_success(ForwardedId, Value(l, None)) : l \in BackendLists(method)}
     ELSE {JsonRpcResponse_success(ForwardedId, Value(None, Some(<<"backend result">>)))})
    \cup {JsonRpcResponse_error(ForwardedId, -32603, <<"backend error">>, None)}
    \cup {[jsonrpc |-> "2.0", id |-> ForwardedId, result |-> None, error |-> None]}
    \cup {[jsonrpc |-> "2.0", id |-> ForwardedId,
           result |-> Some(Value(None, Some(<<"backend result">>))),
           error |-> Some([code |-> -32603, message |-> <<"backend error">>,
                           data |-> None])]}

\* what one POST to a backend may end in: no connection, no answer within
\* the 30 s of the client ("timeout"), a status outside 2xx, a body that is no JSON-RPC response,
\* or a response
BackendReplies(method) ==
    {[transport |-> t, body |-> None] : t \in {"connect", "timeout", "status", "parse"}}
    \cup {[transport |-> "ok", body |-> Some(b)] : b \in BackendBodies(method)}

\* ------------------------------------------------------------------------
\* src/mcp/proxy.rs
\* ------------------------------------------------------------------------
McpProtocol(msg) == AppError("McpProtocol", msg)

\* impl Display for AppError
to_string(e) ==
    IF e.kind = "McpProtocol" THEN <<"MCP protocol error: ">> \o e.msg
    ELSE <<"Database error: ">> \o e.msg

\* forward_http: the reply of the backend as a Result
forward_http(server, request, reply) ==
    CASE reply.transport \in {"connect", "timeout"} ->
            Err(McpProtocol(<<"Failed to connect to MCP server: ">>))
      [] reply.transport = "status" ->
            Err(McpProtocol(<<"MCP server returned error status: ">>))
      [] reply.transport = "parse" ->
            Err(McpProtocol(<<"Failed to parse MCP server response: ">>))
      [] OTHER -> Ok(reply.body[1])

\* forward_request: only "http" is forwarded
forward_request(server, request, reply) ==
    CASE server.protocol = "http" -> forward_http(server, request, reply)
      [] server.protocol = "sse" ->
            Err(McpProtocol(<<"SSE protocol not yet implemented">>))
      [] server.protocol = "stdio" ->
            Err(McpProtocol(<<"stdio protocol not yet implemented">>))
      [] OTHER -> Err(McpProtocol(<<"Unknown protocol: ", server.protocol>>))

\* the record of the ids put on the wire, after forward_request has sent
\* request to server
forwarded_with(server, request) ==
    IF server.protocol = "http" /\ Len(forwarded[server.id]) < MaxForwarded
    THEN [forwarded EXCEPT ![server.id] = Append(@, request.id[1])]
    ELSE forwarded

\* the requests forward_request puts on the wire
sent(server, request) ==
    IF server.protocol = "http"
    THEN <<[server |-> server.id, request |-> request]>>
    ELSE <<>>

\* list_tools, list_resources, list_prompts: the array of the result, or Err
proxy_list(server, method, reply) ==
    LET request == JsonRpcRequest_new(ForwardedId, method, None)
        response == forward_request(server, request, reply)
    IN  IF ~response.ok THEN response
        ELSE IF response.val[1].error # None
             THEN Err(McpProtocol(<<"MCP error: ">> \o response.val[1].error[1].message
                                  \o <<" (code: ", ToString(response.val[1].error[1].code),
                                       ")">>))
        ELSE IF response.val[1].result = None
             THEN Err(McpProtocol(<<"Empty response from MCP server">>))
        ELSE IF response.val[1].result[1].list = None THEN Ok(<<>>)
        ELSE Ok(response.val[1].result[1].list[1])

\* the request call_tool builds
call_tool_request(tool_name, arguments) ==
    JsonRpcRequest_new(ForwardedId, "tools/call",
                       Some([name |-> Some(tool_name), uri |-> None,
                             arguments |-> Some(arguments)]))

\* call_tool: the result of the backend, or Err
call_tool(server, tool_name, arguments, reply) ==
    LET response == forward_request(server, call_tool_request(tool_name, arguments), reply)
    IN  IF ~response.ok THEN response
        ELSE IF response.val[1].error # None
             THEN Err(McpProtocol(<<"Tool execution failed: ">>
                                  \o response.val[1].error[1].message
                                  \o <<" (code: ", ToString(response.val[1].error[1].code),
                                       ")">>))
        ELSE IF response.val[1].result = None
             THEN Err(McpProtocol(<<"Empty response from tool call">>))
        ELSE Ok(response.val[1].result[1])

\* ------------------------------------------------------------------------
\* src/api/handlers/mcp_gateway.rs
\* ------------------------------------------------------------------------
MCP_PROTOCOL_VERSION == "2025-03-26"

\* the methods mcp_gateway dispatches on
Methods ==
    {"initialize", "tools/list", "tools/call", "resources/list", "resources/read",
     "prompts/list", "prompts/get", "ping"}

ListMethods == {"tools/list", "resources/list", "prompts/list"}

RoutedMethods == {"tools/call", "resources/read", "prompts/get"}

\* the separator between a backend's name and the name (uri) of its item
Separator(method) ==
    IF method \in {"resources/list", "resources/read"} THEN ":" ELSE "_"

\* the response of mcp_gateway: the protocol header, a status, a body
Response(status, body) ==
    [status |-> status, mcp_protocol_version |-> MCP_PROTOCOL_VERSION,
     body |-> body]

handle_initialize(id) ==
    JsonRpcResponse_success(id, Value(None, Some(<<"InitializeResult", "metamcp">>)))

handle_ping(id) == JsonRpcResponse_success(id, Value(None, None))

RECURSIVE prefix_every_tool(_, _)
\* handle_tools_list without the test for a name
prefix_every_tool(server, tools) ==
    IF tools = <<>> THEN <<>>
    ELSE LET tool == Head(tools)
         IN  <<IF tool.name # None
               THEN [tool EXCEPT !.name = Some(format_prefixed(server.name, "_", tool.name[1])),
                                 !.original = tool.name,
                                 !.server_id = Some(server.id)]
               ELSE tool>> \o prefix_every_tool(server, Tail(tools))

RECURSIVE prefix_tools(_, _)
\* handle_tools_list, lines 121-135: a tool that has a string name is renamed
\* and pushed, any other tool is dropped
prefix_tools(server, tools) ==
    IF tools = <<>> THEN <<>>
    ELSE LET tool == Head(tools)
             rest == prefix_tools(server, Tail(tools))
         IN  IF tool.name # None
             THEN <<[tool EXCEPT !.name = Some(format_prefixed(server.name, "_", tool.name[1])),
                                 !.original = tool.name,
                                 !.server_id = Some(server.id)]>> \o rest
             ELSE rest

RECURSIVE prefix_resources(_, _)
\* handle_resources_list, lines 214-227: every resource is pushed, one that
\* has a string uri renamed
prefix_resources(server, resources) ==
    IF resources = <<>> THEN <<>>
    ELSE LET resource == Head(resources)
         IN  <<IF resource.uri # None
               THEN [resource EXCEPT
                        !.uri = Some(format_prefixed(server.name, ":", resource.uri[1])),
                        !.original = resource.uri,
                        !.server_id = Some(server.id)]
               ELSE resource>> \o prefix_resources(server, Tail(resources))

RECURSIVE prefix_prompts(_, _)
\* handle_prompts_list, lines 313-327: every prompt is pushed, one that has a
\* string name renamed
prefix_prompts(server, prompts) ==
    IF prompts = <<>> THEN <<>>
    ELSE LET prompt == Head(prompts)
         IN  <<IF prompt.name # None
               THEN [prompt EXCEPT
                        !.name = Some(format_prefixed(server.name, "_", prompt.name[1])),
                        !.original = prompt.name,
                        !.server_id = Some(server.id)]
               ELSE prompt>> \o prefix_prompts(server, Tail(prompts))

\* the items a listing pushes for what one backend returned
pushed(method, server, items) ==
    CASE method = "tools/list" -> prefix_tools(server, items)
      [] method = "resources/list" -> prefix_resources(server, items)
      [] OTHER -> prefix_prompts(server, items)

\* the position, from `from` on, of the first server whose name followed by
\* the separator the token starts with; 0 if there is none
first_match(servers, token, sep, from) ==
    LET hits == {k \in from..Len(servers) :
                    starts_with(token, servers[k].name \o <<sep>>)}
    IN  IF hits = {} THEN 0 ELSE CHOOSE k \in hits : \A l \in hits : k <= l

\* the prefixed token of a routed request: params.uri or params.name
Token(method, params) ==
    IF method = "resources/read" THEN params.uri ELSE params.name

\* the words of a routed method in its messages
Missing(method) ==
    CASE method = "tools/call" -> <<"Missing tool name">>
      [] method = "resources/read" -> <<"Missing uri">>
      [] OTHER -> <<"Missing prompt name">>

Unknown(method) ==
    CASE method = "tools/call" -> <<"Unknown tool: ">>
      [] method = "resources/read" -> <<"Unknown resource: ">>
      [] OTHER -> <<"Unknown prompt: ">>

Failed(method) ==
    CASE method = "tools/call" -> <<"Tool call failed: ">>
      [] method = "resources/read" -> <<"Resource read failed: ">>
      [] OTHER -> <<"Prompt get failed: ">>

\* params.get("arguments").cloned().unwrap_or(json!({}))
arguments_of(params) ==
    IF params.arguments = None THEN Value(None, None) ELSE params.arguments[1]

\* the handler returns: the response is written and the locals are kept for
\* the properties
Return(g, status, body) ==
    [g EXCEPT !.pc = "done", !.resp = Some(Response(status, body))]

DatabaseError(id) ==
    JsonRpcResponse_error(id, -32000,
        <<"Database error: ">> \o to_string(AppError("Database", <<"sqlx">>)), None)

\* a fan-out that finds no backend, or has asked the last one, answers
ListDone(g, id) ==
    Return(g, 200, Some(JsonRpcResponse_success(id, Value(Some(g.all_items), None))))

UnknownToken(g, id, method, token) ==
    Return(g, 200, Some(JsonRpcResponse_error(id, -32602, Unknown(method) \o token, None)))

\* an acknowledgement that carries a JSON-RPC body
acknowledge_with_body(g) ==
    Return(g, 202, Some(JsonRpcResponse_success(Number(0), Value(None, None))))

\* mcp_gateway, lines 45-57: a request without id is a notification; whatever
\* its method, the answer is the header and 202 Accepted
acknowledge(g) == Return(g, 202, None)

\* the error for a method outside Methods, with another code
method_not_found_as_invalid_request(id, method) ==
    JsonRpcResponse_error(id, -32600, <<"Method not found: ", method>>, None)

\* mcp_gateway, lines 70-75
method_not_found(id, method) ==
    JsonRpcResponse_error(id, -32601, <<"Method not found: ", method>>, None)

\* a fan-out that forgets what it has gathered when a backend fails
push_or_reset(all_items, method, server, result) ==
    IF result.ok THEN all_items \o pushed(method, server, result.val[1]) ELSE <<>>

\* the body of the loop of a listing: Ok(items) is pushed, Err is logged
push(all_items, method, server, result) ==
    IF result.ok THEN all_items \o pushed(method, server, result.val[1]) ELSE all_items

\* mcp_gateway up to the first request to a backend: notifications, the
\* methods answered locally, the checks of params, the read of mcp_servers
\* (servers is what list_all(false) returns, db_ok whether it returns)
mcp_gateway(request, db_ok, servers) ==
    /\ gw.pc = "idle"
    /\ LET g == [IdleGw EXCEPT !.request = Some(request)]
           method == request.method
           read == [g EXCEPT !.db_calls = 1]
           listed == [read EXCEPT !.servers = servers]
       IN  IF request.id = None
           THEN gw' = acknowledge(g)
           ELSE LET id == request.id[1]
                IN  CASE method \in {"initialize"} ->
                            gw' = Return(g, 200, Some(handle_initialize(id)))
                      [] method \in {"ping"} ->
                            gw' = Return(g, 200, Some(handle_ping(id)))
                      [] method \in ListMethods ->
                            IF ~db_ok
                            THEN gw' = Return(read, 200, Some(DatabaseError(id)))
                            ELSE IF servers = <<>>
                                 THEN gw' = ListDone(listed, id)
                            ELSE gw' = [listed EXCEPT !.pc = "fan_out", !.i = 1]
                      [] method \in RoutedMethods ->
                            IF request.params = None
                            THEN gw' = Return(g, 200, Some(JsonRpcResponse_error(
                                                id, -32602, <<"Missing params">>, None)))
                            ELSE IF Token(method, request.params[1]) = None
                                 THEN gw' = Return(g, 200, Some(JsonRpcResponse_error(
                                                id, -32602, Missing(method), None)))
                            ELSE IF ~db_ok
                                 THEN gw' = Return(read, 200, Some(DatabaseError(id)))
                            ELSE LET token == Token(method, request.params[1])[1]
                                     k == first_match(servers, token, Separator(method), 1)
                                 IN  IF k = 0
                                     THEN gw' = UnknownToken(listed, id, method, token)
                                     ELSE gw' = [listed EXCEPT !.pc = "route", !.i = k]
                      [] OTHER ->
                            gw' = Return(g, 200, Some(method_not_found(id, method)))
    /\ UNCHANGED <<mcp_servers, servers_created, servers_updated, forwarded>>

\* one turn of the loop of a listing: the backend servers[i] is asked and
\* answers with reply; after the last one the handler returns
ListTurn(method, reply) ==
    /\ gw.pc = "fan_out"
    /\ gw.request[1].method = method
    /\ LET server == gw.servers[gw.i]
           result == proxy_list(server, method, reply)
           g == [gw EXCEPT
                    !.outbound = @ \o sent(server, JsonRpcRequest_new(ForwardedId, method, None)),
                    !.replies = Append(@, IF server.protocol = "http"
                                          THEN Some(reply) ELSE None),
                    !.all_items = push(@, method, server, result)]
       IN  /\ IF gw.i < Len(gw.servers)
               THEN gw' = [g EXCEPT !.i = gw.i + 1]
               ELSE gw' = ListDone(g, gw.request[1].id[1])
           /\ forwarded' = forwarded_with(server, JsonRpcRequest_new(ForwardedId, method, None))
    /\ UNCHANGED <<mcp_servers, servers_created, servers_updated>>

handle_tools_list(reply) == ListTurn("tools/list", reply)

handle_resources_list(reply) == ListTurn("resources/list", reply)

handle_prompts_list(reply) == ListTurn("prompts/list", reply)

\* handle_tools_call from the matching server on: the call is forwarded and
\* its outcome returned
handle_tools_call(reply) ==
    /\ gw.pc = "route"
    /\ gw.request[1].method = "tools/call"
    /\ LET id == gw.request[1].id[1]
           params == gw.request[1].params[1]
           server == gw.servers[gw.i]
           prefix == server.name \o <<"_">>
           original_tool_name == str_from(params.name[1], Len(prefix))
           result == call_tool(server, original_tool_name, arguments_of(params), reply)
           g == [gw EXCEPT
                    !.outbound = @ \o sent(server, call_tool_request(original_tool_name,
                                                                     arguments_of(params))),
                    !.replies = Append(@, IF server.protocol = "http"
                                          THEN Some(reply) ELSE None)]
       IN  /\ IF result.ok
               THEN gw' = Return(g, 200, Some(JsonRpcResponse_success(id, result.val[1])))
               ELSE gw' = Return(g, 200, Some(JsonRpcResponse_error(
                                id, -32000, Failed("tools/call") \o to_string(result.err), None)))
           /\ forwarded' = forwarded_with(server, call_tool_request(original_tool_name,
                                                     arguments_of(params)))
    /\ UNCHANGED <<mcp_servers, servers_created, servers_updated>>

\* handle_resources_read and handle_prompts_get from a matching server on:
\* the request is forwarded; a result or an error is returned, and after a
\* response that has neither the loop goes on to the next matching server
RouteTurn(method, reply) ==
    /\ gw.pc = "route"
    /\ gw.request[1].method = method
    /\ LET id == gw.request[1].id[1]
           params == gw.request[1].params[1]
           token == Token(method, params)[1]
           server == gw.servers[gw.i]
           prefix == server.name \o <<Separator(method)>>
           original == str_from(token, Len(prefix))
           request ==
               JsonRpcRequest_new(ForwardedId, method,
                   Some(IF method = "resources/read"
                        THEN [name |-> None, uri |-> Some(original), arguments |-> None]
                        ELSE [name |-> Some(original), uri |-> None,
                              arguments |-> Some(arguments_of(params))]))
           result == forward_request(server, request, reply)
           g == [gw EXCEPT
                    !.outbound = @ \o sent(server, request),
                    !.replies = Append(@, IF server.protocol = "http"
                                          THEN Some(reply) ELSE None)]
           k == first_match(gw.servers, token, Separator(method), gw.i + 1)
       IN  /\ IF ~result.ok
               THEN gw' = Return(g, 200, Some(JsonRpcResponse_error(
                                id, -32000, Failed(method) \o to_string(result.err), None)))
               ELSE IF result.val[1].result # None
                    THEN gw' = Return(g, 200, Some(JsonRpcResponse_success(
                                                    id, result.val[1].result[1])))
               ELSE IF result.val[1].error # None
                    THEN gw' = Return(g, 200, Some(JsonRpcResponse_error(
                                    id, result.val[1].error[1].code,
                                    result.val[1].error[1].message,
                                    result.val[1].error[1].data)))
               ELSE IF k = 0
                    THEN gw' = UnknownToken(g, id, method, token)
               ELSE gw' = [g EXCEPT !.i = k]
           /\ forwarded' = forwarded_with(server, request)
    /\ UNCHANGED <<mcp_servers, servers_created, servers_updated>>

handle_resources_read(reply) == RouteTurn("resources/read", reply)

handle_prompts_get(reply) == RouteTurn("prompts/get", reply)

\* the response has gone to the client
GwReturn ==
    /\ gw.pc = "done"
    /\ gw' = IdleGw
    /\ UNCHANGED <<mcp_servers, servers_created, servers_updated, forwarded>>

\* ------------------------------------------------------------------------
\* The requests of the clients and of the administrator
\* ------------------------------------------------------------------------
\* the id of the requests that carry one
RequestIds == {Number(7)}

\* the prefixed names given to tools/call and prompts/get: <<"a","_","b","_","x">>
\* is the tool "x" of "a_b" and the tool "b_x" of "a"
RequestedNames ==
    {format_prefixed(n, "_", t) : n \in ServerNames, t \in ToolNames}
    \cup { <<"q", "_", "x">> }

\* the prefixed uris given to resources/read
RequestedUris ==
    {format_prefixed(n, ":", u) : n \in ServerNames, u \in ResourceUris}
    \cup { <<"q", ":", "u">> }

Params(name, uri, arguments) == [name |-> name, uri |-> uri, arguments |-> arguments]

\* params of the routed methods: absent, without the token, with it
RoutedParams(method) ==
    {None, Some(Params(None, None, None))}
    \cup (IF method = "resources/read"
          THEN {Some(Params(None, Some(u), None)) : u \in RequestedUris}
          ELSE {Some(Params(Some(n), None, None)) : n \in RequestedNames})
    \cup (IF method = "tools/call"
          THEN {Some(Params(Some(format_prefixed(<<"a">>, "_", <<"x">>)), None,
                            Some(Value(None, Some(<<"arguments">>)))))}
          ELSE {})

GwRequests ==
    {[jsonrpc |-> "2.0", id |-> None, method |-> m, params |-> None] :
        m \in {"initialized", "notifications/cancelled", "tools/list"}}
    \cup {[jsonrpc |-> "2.0", id |-> None, method |-> m,
           params |-> Some(Params(Some(format_prefixed(<<"a">>, "_", <<"x">>)),
                                  Some(format_prefixed(<<"a">>, ":", <<"u">>)), None))] :
            m \in RoutedMethods}
    \cup {[jsonrpc |-> "2.0", id |-> Some(id), method |-> m, params |-> None] :
            id \in RequestIds, m \in {"initialize", "ping", "foo/bar"} \cup ListMethods}
    \cup UNION {{[jsonrpc |-> "2.0", id |-> Some(id), method |-> m, params |-> p] :
                    id \in RequestIds, p \in RoutedParams(m)} : m \in RoutedMethods}

\* the bodies of POST /api/v1/mcp/servers sent between the requests of the
\* clients
CreateMcpServerRequests ==
    {[name |-> n, url |-> Url("http", Ipv4Addr(93, 184, 216, 34)), protocol |-> p,
      command |-> None, args |-> None, env |-> None] :
        n \in ServerNames, p \in Protocols \cup {""}}

\* the bodies of PUT /api/v1/mcp/servers/{id} sent between the requests of
\* the clients: renaming, inactivation, activation
UpdateMcpServerRequests ==
    {[name |-> n, url |-> None, protocol |-> None, command |-> None, args |-> None,
      env |-> None, is_active |-> a] :
        n \in {None} \cup {Some(s) : s \in ServerNames},
        a \in {None, Some(TRUE), Some(FALSE)}}

GwNext ==
    /\ \/ \E payload \in CreateMcpServerRequests : create_mcp_server(payload)
       \/ \E id \in 1..MaxServers, payload \in UpdateMcpServerRequests :
             update_mcp_server(id, payload)
       \/ \E id \in 1..MaxServers : delete_mcp_server(id)
       \/ \E request \in GwRequests, db_ok \in BOOLEAN,
             servers \in mcp_servers_list_all(FALSE) :
             mcp_gateway(request, db_ok, servers)
       \/ \E reply \in BackendReplies("tools/list") : handle_tools_list(reply)
       \/ \E reply \in BackendReplies("resources/list") : handle_resources_list(reply)
       \/ \E reply \in BackendReplies("prompts/list") : handle_prompts_list(reply)
       \/ \E reply \in BackendReplies("tools/call") : handle_tools_call(reply)
       \/ \E reply \in BackendReplies("resources/read") : handle_resources_read(reply)
       \/ \E reply \in BackendReplies("prompts/get") : handle_prompts_get(reply)
       \/ GwReturn
    /\ UNCHANGED <<authVars, guardVars, streamVars, managerVars>>

SpecGw == Init /\ [][GwNext]_vars

\* ------------------------------------------------------------------------
\* The administrator alone: every body of POST and PUT /api/v1/mcp/servers
\* ------------------------------------------------------------------------
AdminCreateRequests ==
    {[name |-> n, url |-> u, protocol |-> "", command |-> None, args |-> None,
      env |-> None] : n \in ServerNames, u \in ServerUrls}

\* every subset of the seven fields of UpdateMcpServerRequest
AdminUpdateRequests ==
    [name : {None, Some(<<"a">>)},
     url : {None, Some(Url("http", Ipv4Addr(169, 254, 169, 254)))},
     protocol : {None, Some("stdio")},
     command : {None, Some("cmd")},
     args : {None, Some(<<"arg">>)},
     env : {None, Some([KEY |-> "value"])},
     is_active : {None, Some(FALSE), Some(TRUE)}]

AdminNext ==
    \/ /\ \/ \E payload \in AdminCreateRequests : create_mcp_server(payload)
          \/ \E id \in 1..MaxServers, payload \in AdminUpdateRequests :
                update_mcp_server(id, payload)
          \/ \E id \in 1..MaxServers : delete_mcp_server(id)
       /\ UNCHANGED <<authVars, guardVars, streamVars, managerVars>>
    \/ Tick /\ UNCHANGED <<gwVars, guardVars, streamVars, managerVars>>

SpecAdmin == Init /\ [][AdminNext]_vars

\* ------------------------------------------------------------------------
\* The SSRF guard alone: validate_url_for_ssrf on URLs with a literal host
\* ------------------------------------------------------------------------
\* the URLs tried: http, https and ftp with every IPv4 literal whose octets
\* lie on both sides of every bound validate_ipv4 tests, with ::ffff:a.b.c.d
\* of each of them, and with IPv6 literals that embed no IPv4 address
\* (::, ::1, 2001::, fc00::, fd00::, fe80::, ff02::, ::fffe:127.0.0.1)
GuardedUrls ==
    LET FirstOctets ==
            {0, 1, 9, 10, 11, 99, 100, 101, 126, 127, 128, 168, 169, 170, 171, 172,
             173, 191, 192, 193, 197, 198, 199, 202, 203, 204, 223, 224, 239, 240,
             254, 255}
        SecondOctets ==
            {0, 1, 15, 16, 17, 18, 19, 20, 31, 32, 50, 51, 52, 63, 64, 127, 128, 167,
             168, 169, 253, 254, 255}
        ThirdOctets == {0, 1, 2, 3, 99, 100, 101, 112, 113, 114, 169, 255}
        FourthOctets == {0, 1, 254, 255}
        Ipv4Hosts ==
            {Ipv4Addr(a, b, c, d) :
                a \in FirstOctets, b \in SecondOctets, c \in ThirdOctets,
                d \in FourthOctets}
        Ipv6Hosts ==
            {Ipv6Addr(<<0, 0, 0, 0, 0, 65535, ip.octets[1] * 256 + ip.octets[2],
                        ip.octets[3] * 256 + ip.octets[4]>>) : ip \in Ipv4Hosts}
            \cup {Ipv6Addr(<<s, 0, 0, 0, 0, 0, 0, d>>) :
                    s \in {0, 8193, 64512, 64768, 65152, 65282}, d \in {0, 1}}
            \cup {Ipv6Addr(<<0, 0, 0, 0, 0, 65534, 32512, 1>>)}
    IN  {Url(scheme, host) :
            scheme \in {"http", "https", "ftp"}, host \in Ipv4Hosts \cup Ipv6Hosts}

\* one call of the guard, on any of the URLs
ValidateUrl ==
    /\ probe = None
    /\ \E url \in GuardedUrls :
          probe' = Some([url |-> url, result |-> validate_url_for_ssrf(url)])

GuardNext ==
    /\ ValidateUrl
    /\ UNCHANGED <<authVars, gwVars, streamVars, managerVars>>

SpecGuard == Init /\ [][GuardNext]_vars


\* ========================================================================
\* The event stream: src/streaming/manager.rs
\* ========================================================================
\* should_send that lets a listed type pass without looking at include_system
should_send_listed(filters, event) ==
    LET server_id == IF event.variant \in {"McpServerStarted", "McpServerStopped",
                                           "McpToolExecuted", "McpMessage"}
                     THEN Some(event.server_id) ELSE None
    IN  IF filters.event_types # None
        THEN event.type \in filters.event_types[1]
        ELSE IF ~filters.include_system /\ event.variant = "SystemHealth" THEN FALSE
        ELSE ~(filters.server_ids # {} /\ server_id # None
               /\ server_id[1] \notin filters.server_ids)

\* EventFilters::should_send
should_send(filters, event) ==
    LET event_type ==
            CASE event.variant = "McpServerStarted" -> "mcp_server_started"
              [] event.variant = "McpServerStopped" -> "mcp_server_stopped"
              [] event.variant = "McpToolExecuted" -> "mcp_tool_executed"
              [] event.variant = "McpMessage" -> "mcp_message"
              [] event.variant = "SystemHealth" -> "system_health"
              [] event.variant = "Error" -> "error"
        server_id == IF event.variant \in {"McpServerStarted", "McpServerStopped",
                                           "McpToolExecuted", "McpMessage"}
                     THEN Some(event.server_id) ELSE None
    IN  IF filters.event_types # None /\ event_type \notin filters.event_types[1]
        THEN FALSE
        ELSE IF ~filters.include_system /\ event.variant = "SystemHealth" THEN FALSE
        ELSE IF filters.server_ids # {} /\ server_id # None
                /\ server_id[1] \notin filters.server_ids
             THEN FALSE
        ELSE TRUE

\* the events broadcast: every variant of StreamEvent with its serde tag,
\* the four that name a server for the servers "s1" and "s2"
StreamEvents ==
    {[variant |-> v[1], type |-> v[2], server_id |-> s] :
        v \in {<<"McpServerStarted", "mcp_server_started">>,
               <<"McpServerStopped", "mcp_server_stopped">>,
               <<"McpToolExecuted", "mcp_tool_executed">>,
               <<"McpMessage", "mcp_message">>},
        s \in {"s1", "s2"}}
    \cup {[variant |-> "SystemHealth", type |-> "system_health"],
          [variant |-> "Error", type |-> "error"]}

\* the filters clients register with; EventFilters::default() is the one
\* with no types, no servers and include_system false
EventFilters ==
    [event_types : {None, Some({}), Some({"system_health", "mcp_server_started"})},
     server_ids : {{}, {"s1"}},
     include_system : BOOLEAN]

\* register_client: a fresh id, a channel that is empty; the write lock on
\* client_channels is granted when no broadcast holds the read lock
register_client(filters) ==
    /\ bc.pc # "iterating"
    /\ clients_registered < MaxClients
    /\ clients_registered' = clients_registered + 1
    /\ client_channels' =
          client_channels @@ ((clients_registered + 1) :>
              [filters |-> filters, queue |-> <<>>, rx |-> TRUE, received |-> <<>>])
    /\ UNCHANGED <<events_broadcast, bc, server_channels>>

\* unregister_client that leaves the connection in the map
unregister_client_keeping(client_id) ==
    /\ bc.pc # "iterating"
    /\ client_id \in DOMAIN client_channels
    /\ client_channels' = [client_channels EXCEPT ![client_id].queue = <<>>]
    /\ UNCHANGED <<clients_registered, events_broadcast, bc, server_channels>>

\* unregister_client
unregister_client(client_id) ==
    /\ bc.pc # "iterating"
    /\ client_id \in DOMAIN client_channels
    /\ client_channels' =
          [c \in DOMAIN client_channels \ {client_id} |-> client_channels[c]]
    /\ UNCHANGED <<clients_registered, events_broadcast, bc, server_channels>>

\* the orders in which an iteration over the HashMap may visit its entries
IterationOrders(ids) ==
    {s \in [1..Cardinality(ids) -> ids] : \A k, l \in DOMAIN s : k # l => s[k] # s[l]}

\* broadcast up to its loop: the send on broadcast_tx, which has no receiver
\* (nothing calls subscribe) and is not waited for, and the read lock
broadcast(event, order) ==
    /\ bc.pc # "iterating"
    /\ events_broadcast < MaxBroadcasts
    /\ events_broadcast' = events_broadcast + 1
    /\ bc' = [pc |-> IF order = <<>> THEN "returned" ELSE "iterating",
              event |-> Some(event), order |-> order, i |-> 1, sent |-> {}]
    /\ UNCHANGED <<client_channels, clients_registered, server_channels>>

\* one turn of the loop of broadcast: if the filters pass, client.tx.send(
\* event).await, which returns at once with Err when the Receiver is gone,
\* queues the event when the channel has room, and else waits for room
broadcast_next ==
    /\ bc.pc = "iterating"
    /\ LET client_id == bc.order[bc.i]
           client == client_channels[client_id]
           pass == should_send(client.filters, bc.event[1])
           next == [bc EXCEPT !.i = @ + 1,
                              !.pc = IF bc.i = Len(bc.order) THEN "returned" ELSE @,
                              !.sent = IF pass THEN @ \cup {client_id} ELSE @]
       IN  IF ~pass \/ ~client.rx
           THEN /\ bc' = next
                /\ UNCHANGED client_channels
           ELSE /\ Len(client.queue) < ChannelCapacity
                /\ bc' = next
                /\ client_channels' =
                      [client_channels EXCEPT
                          ![client_id].queue =
                              Append(@, [seq |-> events_broadcast, event |-> bc.event[1]])]
    /\ UNCHANGED <<clients_registered, events_broadcast, server_channels>>

\* a Receiver that hands out the event queued last
recv_newest(client_id) ==
    /\ client_id \in DOMAIN client_channels
    /\ client_channels[client_id].rx
    /\ client_channels[client_id].queue # <<>>
    /\ client_channels' =
          [client_channels EXCEPT
              ![client_id].queue = SubSeq(@, 1, Len(@) - 1),
              ![client_id].received =
                  Append(@, client_channels[client_id].queue[
                                Len(client_channels[client_id].queue)].seq)]
    /\ UNCHANGED <<clients_registered, events_broadcast, bc, server_channels>>

\* the holder of a Receiver takes the next event from its channel, the one
\* queued first; `received` is the record of what it has taken
recv(client_id) ==
    /\ client_id \in DOMAIN client_channels
    /\ client_channels[client_id].rx
    /\ client_channels[client_id].queue # <<>>
    /\ client_channels' =
          [client_channels EXCEPT
              ![client_id].queue = Tail(@),
              ![client_id].received =
                  Append(@, Head(client_channels[client_id].queue).seq)]
    /\ UNCHANGED <<clients_registered, events_broadcast, bc, server_channels>>

\* the holder of a Receiver drops it: what is queued is lost
drop_receiver(client_id) ==
    /\ client_id \in DOMAIN client_channels
    /\ client_channels[client_id].rx
    /\ client_channels' =
          [client_channels EXCEPT ![client_id].rx = FALSE, ![client_id].queue = <<>>]
    /\ UNCHANGED <<clients_registered, events_broadcast, bc, server_channels>>

StreamNext ==
    /\ \/ \E filters \in EventFilters : register_client(filters)
       \/ \E client_id \in 1..MaxClients : unregister_client(client_id)
       \/ \E event \in StreamEvents, order \in IterationOrders(DOMAIN client_channels) :
             broadcast(event, order)
       \/ broadcast_next
       \/ \E client_id \in 1..MaxClients : recv(client_id)
       \/ \E client_id \in 1..MaxClients : drop_receiver(client_id)
    /\ UNCHANGED <<authVars, gwVars, guardVars, managerVars>>

SpecStream == Init /\ [][StreamNext]_vars

\* ------------------------------------------------------------------------
\* The per-server channels, the events of servers, the sends to one client
\* ------------------------------------------------------------------------
\* the ids servers are registered and events are published under
ServerChannelIds == {"s1", "s2"}

\* the filters of the clients of this part: EventFilters::default() and the
\* one that names the server "s1"
ServerEventFilters ==
    {[event_types |-> None, server_ids |-> ids, include_system |-> FALSE] :
        ids \in {{}, {"s1"}}}

\* the events of this part: one of each variant, the four that name a
\* server for "s1", and the start of "s2"
ServerEvents ==
    {event \in StreamEvents :
        event.variant \in {"SystemHealth", "Error"} \/ event.server_id = "s1"}
    \cup {[variant |-> "McpServerStarted", type |-> "mcp_server_started",
           server_id |-> "s2"]}

\* the events given to send_to_client
TargetedEvents == {event \in StreamEvents : event.variant \in {"SystemHealth", "Error"}}

\* the events send_to_client has sent to the client: they carry the number 0
\* where those of broadcast carry the number of the call
targeted(client) ==
    Cardinality({k \in DOMAIN client.received : client.received[k] = 0})
    + Cardinality({k \in DOMAIN client.queue : client.queue[k].seq = 0})

\* client_count
client_count == Cardinality(DOMAIN client_channels)

\* register_server: a new broadcast channel, whose only Receiver is dropped
\* at once, takes the place of the one registered before
register_server(server_id) ==
    /\ server_channels' = [server_channels EXCEPT ![server_id] = Some(0)]
    /\ UNCHANGED <<client_channels, clients_registered, events_broadcast, bc>>

\* unregister_server
unregister_server(server_id) ==
    /\ server_channels' = [server_channels EXCEPT ![server_id] = None]
    /\ UNCHANGED <<client_channels, clients_registered, events_broadcast, bc>>

\* server_channels after send_to_server: tx.send(event) on the channel of
\* server_id if there is one; the channel has no Receiver, the event is
\* counted and kept nowhere
sent_to_server(server_id) ==
    IF server_channels[server_id] = None THEN server_channels
    ELSE [server_channels EXCEPT ![server_id] = Some(@[1] + 1)]

\* send_to_server
send_to_server(server_id, event) ==
    /\ server_channels[server_id] # None => server_channels[server_id][1] < MaxServerEvents
    /\ server_channels' = sent_to_server(server_id)
    /\ UNCHANGED <<client_channels, clients_registered, events_broadcast, bc>>

\* handle_mcp_event that hands every event on to broadcast
handle_mcp_event_broadcasting(server_id, event, order) ==
    /\ bc.pc # "iterating"
    /\ events_broadcast < MaxServerBroadcasts
    /\ server_channels[server_id] # None => server_channels[server_id][1] < MaxServerEvents
    /\ server_channels' = sent_to_server(server_id)
    /\ events_broadcast' = events_broadcast + 1
    /\ bc' = [pc |-> IF order = <<>> THEN "returned" ELSE "iterating",
              event |-> Some(event), order |-> order, i |-> 1, sent |-> {}]
    /\ UNCHANGED <<client_channels, clients_registered>>

\* handle_mcp_event: send_to_server, then broadcast (up to its loop, as in
\* `broadcast`) for McpServerStarted and McpServerStopped and nothing more
\* for the other variants
handle_mcp_event(server_id, event, order) ==
    /\ event.variant \in {"McpServerStarted", "McpServerStopped"}
          => (bc.pc # "iterating" /\ events_broadcast < MaxServerBroadcasts)
    /\ server_channels[server_id] # None => server_channels[server_id][1] < MaxServerEvents
    /\ server_channels' = sent_to_server(server_id)
    /\ IF event.variant \in {"McpServerStarted", "McpServerStopped"}
       THEN /\ events_broadcast' = events_broadcast + 1
            /\ bc' = [pc |-> IF order = <<>> THEN "returned" ELSE "iterating",
                      event |-> Some(event), order |-> order, i |-> 1, sent |-> {}]
       ELSE UNCHANGED <<events_broadcast, bc>>
    /\ UNCHANGED <<client_channels, clients_registered>>

\* send_to_client: under the read lock, tx.send(event).await for the client
\* client_id if it is registered and its filters pass; the send returns at
\* once with Err when the Receiver is gone and waits while the channel is
\* full
send_to_client(client_id, event) ==
    /\ bc.pc # "iterating"
    /\ IF client_id \in DOMAIN client_channels
          /\ should_send(client_channels[client_id].filters, event)
          /\ client_channels[client_id].rx
       THEN /\ targeted(client_channels[client_id]) < MaxTargeted
            /\ Len(client_channels[client_id].queue) < ChannelCapacity
            /\ client_channels' =
                  [client_channels EXCEPT
                      ![client_id].queue = Append(@, [seq |-> 0, event |-> event])]
       ELSE UNCHANGED client_channels
    /\ UNCHANGED <<clients_registered, events_broadcast, bc, server_channels>>

ServerEventsNext ==
    /\ \/ \E filters \in ServerEventFilters : register_client(filters)
       \/ \E client_id \in 1..MaxClients : unregister_client(client_id)
       \/ \E server_id \in ServerChannelIds : register_server(server_id)
       \/ \E server_id \in ServerChannelIds : unregister_server(server_id)
       \/ \E server_id \in ServerChannelIds, event \in TargetedEvents :
             send_to_server(server_id, event)
       \/ \E server_id \in ServerChannelIds, event \in ServerEvents,
             order \in IterationOrders(DOMAIN client_channels) :
             handle_mcp_event(server_id, event, order)
       \/ broadcast_next
       \/ \E client_id \in 1..MaxClients, event \in TargetedEvents :
             send_to_client(client_id, event)
       \/ \E client_id \in 1..MaxClients : recv(client_id)
       \/ \E client_id \in 1..MaxClients : drop_receiver(client_id)
    /\ UNCHANGED <<authVars, gwVars, guardVars, managerVars>>

SpecServerEvents == Init /\ [][ServerEventsNext]_vars

\* the broadcast in progress takes its next turn when it can: the task that
\* called it is scheduled.  Nothing is assumed of the clients: a holder of
\* a Receiver need not ever take an event or drop it
SpecServerEventsFair ==
    /\ SpecServerEvents
    /\ WF_vars(broadcast_next /\ UNCHANGED <<authVars, gwVars, guardVars, managerVars>>)



\* ========================================================================
\* The server manager: src/mcp/server_manager.rs
\* ========================================================================
\* the configurations backends are spawned from
McpServerConfigs ==
    {[name |-> n, command |-> "mcp-server", args |-> <<"--stdio">>,
      env |-> [KEY |-> "value"], working_dir |-> None] : n \in {"echo", "files"}}

\* JsonRpcNotification { method: "shutdown", params: None }: it has no id
shutdown == [jsonrpc |-> "2.0", method |-> "shutdown", params |-> None]

\* the lines callers give to send_message
Messages == {"message"}

\* the value () of a call that returns Result<(), AppError>
Unit == 0

\* what a call of the manager returned
Outcome(op, id, result) == [op |-> op, id |-> id, result |-> result]

\* ServerInfo of the handle of server_id
ServerInfo(server_id) ==
    [id |-> server_id, name |-> manager_servers[server_id].config.name,
     status |-> manager_servers[server_id].status]

\* list_servers
list_servers == {ServerInfo(server_id) : server_id \in DOMAIN manager_servers}

\* get_server
get_server(server_id) ==
    IF server_id \in DOMAIN manager_servers THEN Some(ServerInfo(server_id)) ELSE None

\* a removal that leaves the handle in the registry
servers_remove_nothing(server_id) == manager_servers

\* servers.remove(server_id)
servers_remove(server_id) ==
    [k \in DOMAIN manager_servers \ {server_id} |-> manager_servers[k]]

\* a handle inserted with status Starting
servers_insert_starting(server_id, config) ==
    servers_remove(server_id) @@
        (server_id :> [config |-> config, status |-> <<"Starting">>])

\* servers.insert(server_id, handle): the handle of a child just spawned
servers_insert(server_id, config) ==
    servers_remove(server_id) @@
        (server_id :> [config |-> config, status |-> <<"Running">>])

\* stop_server that takes the handle out of the registry and leaves its
\* child alone
shut_down_never(server_id, graceful) == children

\* stop_server, lines 149-163, for the child of a handle taken out of the
\* registry: it is waited for; `graceful` is whether it exits within the
\* five seconds; if it does not, it is killed.  For a child that has exited
\* already wait returns at once
shut_down(server_id, graceful) ==
    IF children[server_id].state # "running" THEN children
    ELSE [children EXCEPT
             ![server_id].state = IF graceful THEN "exited" ELSE "killed"]

\* stop_server, lines 135-146: the shutdown notification is written to the
\* stdin of the child; for a child that has exited the writes fail, which is
\* ignored
write_shutdown(server_id) ==
    IF children[server_id].state # "running" THEN children
    ELSE [children EXCEPT ![server_id].stdin = Append(@, shutdown)]

\* self.servers, the RwLock of the registry, is held by no one: mgr.stopping
\* is the id whose stop_server holds the write lock, 0 when there is none
servers_lock_free == mgr.stopping = 0

\* spawn_server: a fresh uuid; cmd.spawn() succeeds (os_ok) or fails; the
\* handle of the child is inserted with status Running under the write lock,
\* which the call waits for
spawn_server(config, os_ok) ==
    /\ spawned < MaxSpawns
    /\ os_ok => servers_lock_free
    /\ IF os_ok
       THEN /\ spawned' = spawned + 1
            /\ children' = children @@ ((spawned + 1) :>
                              [config |-> config, state |-> "running", stdin |-> <<>>])
            /\ manager_servers' = servers_insert(spawned + 1, config)
            /\ mgr' = [mgr EXCEPT !.returned =
                          Some(Outcome("spawn_server", 0, Ok(spawned + 1)))]
       ELSE /\ mgr' = [mgr EXCEPT !.returned =
                          Some(Outcome("spawn_server", 0,
                               Err(AppError("Process", "Failed to spawn MCP server"))))]
            /\ UNCHANGED <<manager_servers, children, spawned>>
    /\ UNCHANGED messages_sent

\* stop_server, lines 130-146: the write lock is taken, the handle is taken
\* out of the registry and the shutdown notification is written; the lock
\* stays held.  For an id that is not registered the call returns at once
stop_server(server_id) ==
    /\ servers_lock_free
    /\ IF server_id \in DOMAIN manager_servers
       THEN /\ manager_servers' = servers_remove(server_id)
            /\ children' = write_shutdown(server_id)
            /\ mgr' = [mgr EXCEPT !.stopping = server_id]
       ELSE /\ mgr' = [mgr EXCEPT !.returned =
                          Some(Outcome("stop_server", server_id, Ok(Unit)))]
            /\ UNCHANGED <<manager_servers, children>>
    /\ UNCHANGED <<spawned, messages_sent>>

\* stop_server, lines 149-169: the wait of up to five seconds ends, the
\* guard of the write lock is dropped and the call returns Ok, to its caller
\* or to restart_server
stop_server_wait(graceful) ==
    /\ ~servers_lock_free
    /\ children' = shut_down(mgr.stopping, graceful)
    /\ mgr' = IF mgr.pc = "wait"
              THEN [mgr EXCEPT !.stopping = 0, !.pc = "spawn"]
              ELSE [mgr EXCEPT !.stopping = 0, !.returned =
                       Some(Outcome("stop_server", mgr.stopping, Ok(Unit)))]
    /\ UNCHANGED <<manager_servers, spawned, messages_sent>>

\* restart_server, lines 175-181: the config is read under the read lock,
\* which is released before stop_server is called
restart_server(server_id) ==
    /\ mgr.pc = "idle"
    /\ spawned < MaxSpawns
    /\ servers_lock_free
    /\ IF server_id \in DOMAIN manager_servers
       THEN mgr' = [mgr EXCEPT !.pc = "stop", !.id = server_id,
                               !.config = Some(manager_servers[server_id].config)]
       ELSE mgr' = [mgr EXCEPT !.returned =
                       Some(Outcome("restart_server", server_id,
                            Err(AppError("NotFound", "Server not found"))))]
    /\ UNCHANGED <<manager_servers, children, spawned, messages_sent>>

\* restart_server, line 184: self.stop_server(server_id).await? takes the
\* write lock; it returns Ok at once when the handle is no longer there
restart_server_stop ==
    /\ mgr.pc = "stop"
    /\ servers_lock_free
    /\ IF mgr.id \in DOMAIN manager_servers
       THEN /\ manager_servers' = servers_remove(mgr.id)
            /\ children' = write_shutdown(mgr.id)
            /\ mgr' = [mgr EXCEPT !.pc = "wait", !.stopping = mgr.id]
       ELSE /\ mgr' = [mgr EXCEPT !.pc = "spawn"]
            /\ UNCHANGED <<manager_servers, children>>
    /\ UNCHANGED <<spawned, messages_sent>>

\* restart_server, line 187: self.spawn_server(config).await
restart_server_spawn(os_ok) ==
    /\ mgr.pc = "spawn"
    /\ os_ok => servers_lock_free
    /\ IF os_ok
       THEN /\ spawned' = spawned + 1
            /\ children' = children @@ ((spawned + 1) :>
                              [config |-> mgr.config[1], state |-> "running",
                               stdin |-> <<>>])
            /\ manager_servers' = servers_insert(spawned + 1, mgr.config[1])
            /\ mgr' = [mgr EXCEPT !.pc = "idle", !.id = 0, !.config = None,
                          !.returned = Some(Outcome("restart_server", mgr.id,
                                                    Ok(spawned + 1)))]
       ELSE /\ mgr' = [mgr EXCEPT !.pc = "idle", !.id = 0, !.config = None,
                          !.returned = Some(Outcome("restart_server", mgr.id,
                            Err(AppError("Process", "Failed to spawn MCP server"))))]
            /\ UNCHANGED <<manager_servers, children, spawned>>
    /\ UNCHANGED messages_sent

\* send_message that reports success for an id that is not registered
send_message_unchecked(server_id, message) ==
    /\ messages_sent < MaxMessages
    /\ servers_lock_free
    /\ messages_sent' = messages_sent + 1
    /\ mgr' = [mgr EXCEPT !.returned =
                  Some(Outcome("send_message", server_id, Ok(Unit)))]
    /\ children' = IF server_id \in DOMAIN manager_servers
                      /\ children[server_id].state = "running"
                   THEN [children EXCEPT ![server_id].stdin = Append(@, message)]
                   ELSE children
    /\ UNCHANGED <<manager_servers, spawned>>

\* send_message: under the write lock, from get_mut to the end of the
\* writes, the line is written to the stdin of the child; the write fails
\* when the child has exited
send_message(server_id, message) ==
    /\ messages_sent < MaxMessages
    /\ servers_lock_free
    /\ messages_sent' = messages_sent + 1
    /\ IF server_id \notin DOMAIN manager_servers
       THEN /\ mgr' = [mgr EXCEPT !.returned =
                          Some(Outcome("send_message", server_id,
                               Err(AppError("NotFound", "Server not found"))))]
            /\ UNCHANGED children
       ELSE IF children[server_id].state # "running"
       THEN /\ mgr' = [mgr EXCEPT !.returned =
                          Some(Outcome("send_message", server_id,
                               Err(AppError("Process", "Failed to write to server"))))]
            /\ UNCHANGED children
       ELSE /\ mgr' = [mgr EXCEPT !.returned =
                          Some(Outcome("send_message", server_id, Ok(Unit)))]
            /\ children' = [children EXCEPT ![server_id].stdin = Append(@, message)]
    /\ UNCHANGED <<manager_servers, spawned>>

\* a sweep that takes the handles found failed by the sweep before out of
\* the registry
monitor_servers_reaping ==
    /\ servers_lock_free
    /\ manager_servers' =
          [server_id \in {k \in DOMAIN manager_servers :
                              manager_servers[k].status[1] # "Failed"} |->
              IF children[server_id].state # "running"
              THEN [manager_servers[server_id] EXCEPT
                       !.status = <<"Failed", "Process exited with status">>]
              ELSE manager_servers[server_id]]
    /\ UNCHANGED <<children, spawned, messages_sent, mgr>>

\* one turn of the loop of monitor_servers: every handle whose child
\* try_wait finds exited gets status Failed; the crash is logged
monitor_servers ==
    /\ servers_lock_free
    /\ manager_servers' =
          [server_id \in DOMAIN manager_servers |->
              IF children[server_id].state # "running"
              THEN [manager_servers[server_id] EXCEPT
                       !.status = <<"Failed", "Process exited with status">>]
              ELSE manager_servers[server_id]]
    /\ UNCHANGED <<children, spawned, messages_sent, mgr>>

\* a child process exits on its own
child_exit(server_id) ==
    /\ server_id \in DOMAIN children
    /\ children[server_id].state = "running"
    /\ children' = [children EXCEPT ![server_id].state = "exited"]
    /\ UNCHANGED <<manager_servers, spawned, messages_sent, mgr>>

ManagerNext ==
    /\ \/ \E config \in McpServerConfigs, os_ok \in BOOLEAN : spawn_server(config, os_ok)
       \/ \E server_id \in 1..MaxSpawns : stop_server(server_id)
       \/ \E graceful \in BOOLEAN : stop_server_wait(graceful)
       \/ \E server_id \in 1..MaxSpawns : restart_server(server_id)
       \/ restart_server_stop
       \/ \E os_ok \in BOOLEAN : restart_server_spawn(os_ok)
       \/ \E server_id \in 1..MaxSpawns, message \in Messages :
             send_message(server_id, message)
       \/ monitor_servers
       \/ \E server_id \in 1..MaxSpawns : child_exit(server_id)
    /\ UNCHANGED <<authVars, gwVars, guardVars, streamVars>>

SpecManager == Init /\ [][ManagerNext]_vars


\* ========================================================================
\* Properties of the credential subsystem
\* ========================================================================
\* the stored, active credentials whose hash the presented key verifies against
ActiveMatches(api_key) ==
    {id \in DOMAIN api_keys :
        api_keys[id].is_active /\ verify_api_key(api_key, api_keys[id].key_hash)}

\* the credential a token names is missing or inactive
CredentialGone(t) ==
    LET id == UuidParseStr(t.sub)
    IN  id = None \/ id[1] \notin DOMAIN api_keys \/ ~api_keys[id[1]].is_active

Bearer(t) == Some([scheme |-> "Bearer ", rest |-> t])

\* the step in which authenticate_with_api_key reads the store
LookupStep == req.pc = "handler" /\ req.route = TokenRoute /\ req'.pc # "handler"

\* the step in which authenticate_with_api_key writes last_used_at and replies
IssueStep == req.pc = "update_last_used" /\ req'.pc = "done"

\* the step in which auth_middleware checks an arriving request
MiddlewareStep ==
    /\ req.pc \in {"idle", "done"}
    /\ req'.pc \in {"handler", "done"}
    /\ req'.route \in protected_routes
    /\ ~req'.handled

\* the store itself failed in the step that produced r
StoreFailed(r) == r.log # None /\ r.log[1].e.kind = "Database"

\* the bearer check turned the request down
Rejected(r) == r.pc = "done" /\ r.route \in protected_routes /\ ~r.handled

\* the token route answered without a token
AuthenticateFailed(r) ==
    /\ r.pc = "done"
    /\ r.route = TokenRoute
    /\ r.resp[1].status # 200
    /\ r.resp[1].access_token = None

\* ---- C1 ----------------------------------------------------------------
C1_Step ==
    /\ LookupStep /\ ActiveMatches(req.api_key[1]) = {}
          => AuthenticateFailed(req') /\ issued' = issued
    /\ MiddlewareStep
          => \A t \in issued :
                req'.header = Bearer(t) /\ CredentialGone(t)
                    => Rejected(req') /\ req'.resp[1].status = 401

\* C1: while a credential is inactive or deleted, every Authenticate with its
\* plaintext that reads the store fails and issues nothing, and every Validate
\* of a token issued for it is rejected with 401, whatever the token's
\* signature and expiry, under every interleaving with the admin operations.
C1_InactivationBlocksBothPaths == [][C1_Step]_authVars

\* a token with a good signature and a live expiry was just rejected because
\* its credential is inactive
C1_Witness ==
    /\ Rejected(req)
    /\ \E t \in issued :
          /\ req.header = Bearer(t)
          /\ JwtDecodeOk(t, now)
          /\ UuidParseStr(t.sub)[1] \in DOMAIN api_keys
          /\ ~api_keys[UuidParseStr(t.sub)[1]].is_active
    /\ req.log[1].e.msg = "API key has been revoked"

\* ---- C2 ----------------------------------------------------------------
C2_Step ==
    /\ LookupStep /\ ~StoreFailed(req')
          => \A id \in ActiveMatches(req.api_key[1]) :
                req'.pc = "update_last_used" /\ req'.stored_key = Some(id)
    /\ IssueStep /\ ~StoreFailed(req')
          => LET id == req.stored_key[1]
                 resp == req'.resp[1]
             IN  /\ resp.status = 200
                 /\ resp.access_token # None
                 /\ resp.access_token[1] \in issued'
                 /\ UuidParseStr(resp.access_token[1].sub) = Some(id)

\* the token the token route answered with validates, with the subject of the
\* credential the presented key belongs to, while that credential is active
\* and the token has not expired
C2_Answered ==
    req.pc = "done" /\ req.route = TokenRoute /\ req.resp[1].access_token # None
        => LET t == req.resp[1].access_token[1]
               id == req.stored_key[1]
           IN  id \in DOMAIN api_keys /\ api_keys[id].is_active /\ ~(t.exp < now - leeway)
                  => /\ verify_api_key(req.api_key[1], api_keys[id].key_hash)
                     /\ validate_token(t, TRUE).ok
                     /\ validate_token(t, TRUE).val = Some(Claims(t))
                     /\ UuidParseStr(Claims(t).sub) = Some(id)

\* C2: Authenticate with the plaintext of an active credential c selects c
\* among all stored credentials and returns a token whose subject is c.id and
\* which Validate accepts with that subject (while c is active and the token
\* has not expired).
C2_RoundTripOfBearerIssuance == [][C2_Step]_authVars /\ []C2_Answered

\* a token was just issued for credential 1 while credential 2, which is
\* listed first, is stored and active too
C2_Witness ==
    /\ req.pc = "done" /\ req.route = TokenRoute
    /\ req.resp[1].access_token # None
    /\ req.resp[1].access_token[1].sub = UuidToString(1)
    /\ DOMAIN api_keys = {1, 2}
    /\ api_keys[1].is_active /\ api_keys[2].is_active
    /\ validate_token(req.resp[1].access_token[1], TRUE).ok

\* ---- C3 ----------------------------------------------------------------
C3_Step ==
    /\ LookupStep
          => /\ api_keys' = api_keys /\ issued' = issued
             /\ ActiveMatches(req.api_key[1]) = {} /\ ~StoreFailed(req')
                   => /\ req'.pc = "done"
                      /\ req'.resp[1].status = 401
                      /\ req'.resp[1].error = "Unauthorized"
                      /\ req'.resp[1].access_token = None
    /\ IssueStep
          => IF req'.resp[1].status = 200
             THEN /\ DOMAIN api_keys' = DOMAIN api_keys
                  /\ \A k \in DOMAIN api_keys :
                        api_keys'[k] =
                            IF k = req.stored_key[1]
                            THEN [api_keys[k] EXCEPT !.last_used_at = Some(now)]
                            ELSE api_keys[k]
             ELSE /\ req'.resp[1].access_token = None
                  /\ api_keys' = api_keys /\ issued' = issued

\* C3: when the store answers and the presented key matches no active
\* credential (none stored, or only inactive ones), Authenticate fails with
\* 401 Unauthorized; a failed Authenticate issues no token and changes no
\* credential record; a successful one sets last_used_at of the matched
\* credential and changes nothing else.
C3_AuthenticateFailsClosed == [][C3_Step]_authVars

\* the key of a stored but inactive credential was just refused
C3_Witness ==
    /\ AuthenticateFailed(req)
    /\ req.resp[1].status = 401
    /\ api_keys # <<>>
    /\ \A id \in DOMAIN api_keys : ~api_keys[id].is_active
    /\ \E id \in DOMAIN api_keys : verify_api_key(req.api_key[1], api_keys[id].key_hash)

\* ---- C4 ----------------------------------------------------------------
\* C4 as claimed: any two rejections by the bearer check are the same
\* response, whatever their causes (stated for two rejections in a row).
C4_Original_UniformRejection ==
    [][Rejected(req) /\ Rejected(req') => req'.resp = req.resp]_authVars

\* C4, amended: every rejection by the bearer check is a 401 whose error is
\* "unauthorized"; all rejections of a request that carries a bearer token
\* (bad signature, format or expiry, subject that is no uuid, credential
\* missing or revoked, store failure) are one and the same response, and a
\* missing or malformed header gets the one other response.
C4_RejectionsUniformPerClass ==
    Rejected(req) =>
        /\ req.resp[1].status = 401
        /\ req.resp[1].error = "unauthorized"
        /\ req.resp[1].access_token = None
        /\ req.resp[1].description =
              IF extract_bearer_token(req.header) = None
              THEN Some("Missing or invalid Authorization header")
              ELSE Some("Invalid or expired token")

\* an issued token that has expired was just rejected
C4_Witness ==
    /\ Rejected(req)
    /\ \E t \in issued : req.header = Bearer(t) /\ t.exp < now - leeway
    /\ req.log[1].e.kind = "Jwt"

\* ---- C5 ----------------------------------------------------------------
\* the request reached its handler
Reached(r) == r.pc \in {"handler", "update_last_used"} \/ r.handled

C5_Protected ==
    /\ Reached(req) /\ req.route \in protected_routes
          => /\ req.claims # None
             /\ extract_bearer_token(req.header) # None
             /\ LET t == extract_bearer_token(req.header)[1]
                IN  /\ req.claims = Some(Claims(t))
                    /\ t.fmt = "jwt"
                    /\ t.sig = Sign(JWT_SECRET, t.sub, t.exp, t.iat, t.jti)
                    /\ UuidParseStr(t.sub) # None
                    /\ UuidParseStr(t.sub)[1] \in 1..keys_created
    /\ Rejected(req) => req.resp[1].status = 401 /\ req.claims = None

\* a request passes the bearer check only with an issued token that has not
\* expired and whose credential is stored and active at that moment
C5_Step ==
    MiddlewareStep /\ req'.pc = "handler"
        => \E t \in issued :
              /\ req'.header = Bearer(t)
              /\ ~(t.exp < now - leeway)
              /\ ~CredentialGone(t)

\* C5 as claimed: the handler of a protected route is reached only after
\* Validate succeeded, and a handler reached without a token is that of
\* /health, /mcp/health or /api/v1/auth/token.
C5_Original_OnlyThreeOpenRoutes ==
    /\ C5_Protected
    /\ Reached(req) /\ req.claims = None
          => req.route \in {"GET /health", "GET /mcp/health", TokenRoute}

\* C5, amended: the handler of a protected route (POST /mcp, GET /mcp, every
\* /api/v1/mcp/servers route) is reached only after Validate succeeded on the
\* request's bearer token, and otherwise the response is 401 with no handler
\* effect; the handlers reached without a token are those of /health,
\* /mcp/health, /api/v1/auth/token and of the documentation routes
\* /swagger-ui and /api-docs/openapi.json.
C5_HandlersBehindBearerCheck ==
    /\ [](/\ C5_Protected
          /\ Reached(req) /\ req.claims = None
                => req.route \in public_routes \cup swagger_routes)
    /\ [][C5_Step]_authVars

\* the handler of a protected admin route ran for a validated request
C5_Witness ==
    /\ req.handled
    /\ req.route = "DELETE /api/v1/mcp/servers/{server_id}"
    /\ req.claims # None

\* ========================================================================
\* Properties of the aggregation engine
\* ========================================================================
\* the handler of a request with an id for `method` has returned
Returned(method) ==
    /\ gw.pc = "done"
    /\ gw.request[1].id # None
    /\ gw.request[1].method = method

\* the body of the response
Body == gw.resp[1].body[1]

\* the handler has read the rows of mcp_servers
StoreAnswered ==
    /\ gw.db_calls = 1
    /\ ~(Body.error # None /\ Body.error[1].code = -32000
          /\ starts_with(Body.error[1].message, <<"Database error: ">>))

\* the k-th backend asked has answered with a result
Answered(k) ==
    /\ gw.replies[k] # None
    /\ gw.replies[k][1].transport = "ok"
    /\ gw.replies[k][1].body[1].error = None
    /\ gw.replies[k][1].body[1].result # None

\* the array the k-th backend has returned
ReturnedItems(k) ==
    IF Answered(k) /\ gw.replies[k][1].body[1].result[1].list # None
    THEN gw.replies[k][1].body[1].result[1].list[1]
    ELSE <<>>

HasName(item) == item.name # None

\* the item under its prefixed name (uri), with its metadata
Prefixed(method, server, item) ==
    IF method = "resources/list"
    THEN IF item.uri = None THEN item
         ELSE [name |-> item.name, uri |-> Some(server.name \o <<":">> \o item.uri[1]),
               original |-> item.uri, server_id |-> Some(server.id)]
    ELSE IF item.name = None THEN item
         ELSE [name |-> Some(server.name \o <<"_">> \o item.name[1]), uri |-> item.uri,
               original |-> item.name, server_id |-> Some(server.id)]

\* the items of the k-th backend that belong in the aggregate
ItemsOf(method, k) ==
    LET items == IF method = "tools/list"
                 THEN SelectSeq(ReturnedItems(k), HasName)
                 ELSE ReturnedItems(k)
    IN  [j \in DOMAIN items |-> Prefixed(method, gw.servers[k], items[j])]

RECURSIVE ItemsUpTo(_, _)
ItemsUpTo(method, k) ==
    IF k = 0 THEN <<>> ELSE ItemsUpTo(method, k - 1) \o ItemsOf(method, k)

RECURSIVE ReturnedUpTo(_)
\* the number of objects the first k backends have returned
ReturnedUpTo(k) ==
    IF k = 0 THEN 0 ELSE ReturnedUpTo(k - 1) + Len(ReturnedItems(k))

RECURSIVE NamedUpTo(_)
\* the number of objects with a name the first k backends have returned
NamedUpTo(k) ==
    IF k = 0 THEN 0 ELSE NamedUpTo(k - 1) + Len(SelectSeq(ReturnedItems(k), HasName))

\* tools/call has returned for a request that names a tool
ToolCalled ==
    /\ Returned("tools/call")
    /\ gw.request[1].params # None
    /\ gw.request[1].params[1].name # None
    /\ StoreAnswered

CalledName == gw.request[1].params[1].name[1]

\* C6 (as the specification states it): for every set of active backends
\* and every backend N exporting a tool T, tools/list contains an item named
\* "N_T", and tools/call with the name "N_T" is forwarded to exactly N with
\* the tool name T.
C6_Original_PrefixRoutingForEverySetOfBackends ==
    /\ (Returned("tools/list") /\ StoreAnswered) =>
          \A k \in DOMAIN gw.servers :
             \A j \in DOMAIN ReturnedItems(k) :
                HasName(ReturnedItems(k)[j]) =>
                   \E l \in DOMAIN Body.result[1].list[1] :
                      Body.result[1].list[1][l].name
                         = Some(gw.servers[k].name \o <<"_">> \o ReturnedItems(k)[j].name[1])
    /\ ToolCalled =>
          \A k \in DOMAIN gw.servers, T \in ToolNames :
             (/\ gw.servers[k].protocol = "http"
              /\ CalledName = gw.servers[k].name \o <<"_">> \o T)
             => gw.outbound =
                   <<[server |-> gw.servers[k].id,
                      request |-> call_tool_request(T, arguments_of(gw.request[1].params[1]))]>>

\* C7 (as the specification states it): the aggregated tools array has one
\* item per tool object each backend returned, so its length is the sum of
\* the lengths of the backends' tool lists.
C7_Original_LengthIsSumOfLists ==
    (Returned("tools/list") /\ StoreAnswered) =>
        /\ Body.result # None
        /\ Len(Body.result[1].list[1]) = ReturnedUpTo(Len(gw.servers))

\* C7 (amended): the aggregated tools array has one item per returned tool
\* object that has a string name; its length is the sum, over the backends
\* that answered, of the number of such objects, and a tool object without a
\* name is left out.
C7_LengthIsSumOfNamedTools ==
    (Returned("tools/list") /\ StoreAnswered) =>
        /\ Body.result # None
        /\ Len(Body.result[1].list[1]) = NamedUpTo(Len(gw.servers))
        /\ \A l \in DOMAIN Body.result[1].list[1] : HasName(Body.result[1].list[1][l])

\* two backends have answered tools/list, one of them with a tool object
\* that has no name
C7_Witness ==
    /\ Returned("tools/list")
    /\ StoreAnswered
    /\ Len(gw.servers) = 2
    /\ Answered(1) /\ Answered(2)
    /\ Len(Body.result[1].list[1]) = 2
    /\ ReturnedUpTo(2) = 3

\* C8: tools/call whose name starts with "<backend.name>_" for no active
\* backend returns the error -32602 "Unknown tool: <name>" and forwards no
\* request to any backend.
C8_UnknownPrefixIsRejected ==
    (/\ ToolCalled
     /\ \A id \in DOMAIN mcp_servers :
           mcp_servers[id].is_active =>
              ~starts_with(CalledName, mcp_servers[id].name \o <<"_">>))
    => /\ gw.resp[1].status = 200
       /\ Body.result = None
       /\ Body.error # None
       /\ Body.error[1].code = -32602
       /\ Body.error[1].message = <<"Unknown tool: ">> \o CalledName
       /\ gw.outbound = <<>>

\* tools/call has been rejected for a name whose prefix is the name of a
\* backend that is registered but inactive
C8_Witness ==
    /\ ToolCalled
    /\ Body.error # None
    /\ Body.error[1].code = -32602
    /\ gw.outbound = <<>>
    /\ \E id \in DOMAIN mcp_servers :
          /\ ~mcp_servers[id].is_active
          /\ starts_with(CalledName, mcp_servers[id].name \o <<"_">>)

\* C9: in tools/list, resources/list and prompts/list a backend that fails
\* (no connection, status outside 2xx, unparsable body, JSON-RPC error, no
\* result, unsupported transport) never fails the call: the response is a
\* success whose array holds exactly the items of the backends that
\* answered, in the order asked, for every set of failing backends.
C9_FailingBackendsAreLeftOut ==
    \A method \in ListMethods :
        (Returned(method) /\ StoreAnswered) =>
            /\ gw.resp[1].status = 200
            /\ Body.error = None
            /\ Body.result = Some(Value(Some(ItemsUpTo(method, Len(gw.servers))), None))
            /\ Len(gw.replies) = Len(gw.servers)

\* a listing has returned the items of one backend although the backend
\* asked after it failed
C9_Witness ==
    \E method \in ListMethods :
        /\ Returned(method)
        /\ StoreAnswered
        /\ Len(gw.servers) = 2
        /\ Answered(1) /\ ~Answered(2)
        /\ gw.servers[2].protocol = "http"
        /\ Body.error = None
        /\ Len(Body.result[1].list[1]) >= 1

\* C10: a request with an id whose method is none of the eight methods
\* returns the error -32601 "Method not found: <method>" and reads neither
\* the descriptor store nor any backend.
C10_UnknownMethodTouchesNothing ==
    (/\ gw.pc = "done"
     /\ gw.request[1].id # None
     /\ gw.request[1].method \notin Methods)
    => /\ gw.resp[1].status = 200
       /\ Body.id = gw.request[1].id[1]
       /\ Body.result = None
       /\ Body.error # None
       /\ Body.error[1].code = -32601
       /\ starts_with(Body.error[1].message, <<"Method not found: ">>)
       /\ gw.db_calls = 0
       /\ gw.outbound = <<>>
       /\ gw.replies = <<>>

\* the method "foo/bar" has been refused while a backend is registered
C10_Witness ==
    /\ gw.pc = "done"
    /\ gw.request[1].id # None
    /\ gw.request[1].method = "foo/bar"
    /\ Body.error # None
    /\ \E id \in DOMAIN mcp_servers : mcp_servers[id].is_active

\* the last reply a backend has given to the request
LastReply == gw.replies[Len(gw.replies)]

\* C11: every request without an id is acknowledged with 202 and no JSON-RPC
\* body, whatever its method; a notification named tools/call, resources/read
\* or prompts/get reads no descriptor and is forwarded to no backend.
C11_NotificationsAreAcknowledged ==
    (gw.pc = "done" /\ gw.request[1].id = None)
    => /\ gw.resp[1].status = 202
       /\ gw.resp[1].body = None
       /\ gw.db_calls = 0
       /\ gw.outbound = <<>>
       /\ gw.replies = <<>>

\* a notification named tools/call, whose tool name carries the prefix of an
\* active http backend, has been acknowledged
C11_Witness ==
    /\ gw.pc = "done"
    /\ gw.request[1].id = None
    /\ gw.request[1].method = "tools/call"
    /\ gw.resp[1].status = 202
    /\ \E id \in DOMAIN mcp_servers :
          /\ mcp_servers[id].is_active
          /\ mcp_servers[id].protocol = "http"
          /\ starts_with(gw.request[1].params[1].name[1], mcp_servers[id].name \o <<"_">>)

\* C12: the envelope returned for a request with an id has exactly one of
\* result and error, for every method and whatever the backends reply (a
\* reply with neither or with both included).
C12_ExactlyOneOfResultAndError ==
    (gw.pc = "done" /\ gw.request[1].id # None)
    => /\ gw.resp[1].body # None
       /\ (Body.result = None) # (Body.error = None)

\* a routed request has returned after a backend replied with both a result
\* and an error
C12_Witness ==
    /\ gw.pc = "done"
    /\ gw.request[1].id # None
    /\ gw.request[1].method \in RoutedMethods
    /\ gw.replies # <<>>
    /\ LastReply # None
    /\ LastReply[1].transport = "ok"
    /\ LastReply[1].body[1].result # None
    /\ LastReply[1].body[1].error # None

\* the backend asked last has answered a routed request with a JSON-RPC
\* error and no result
BackendError(method) ==
    /\ Returned(method)
    /\ gw.replies # <<>>
    /\ LastReply # None
    /\ LastReply[1].transport = "ok"
    /\ LastReply[1].body[1].error # None
    /\ LastReply[1].body[1].result = None

\* C13 (as the specification states it): when the backend that owns a routed
\* tools/call, resources/read or prompts/get answers with a JSON-RPC error,
\* the response carries that error's code and message unchanged.
C13_Original_BackendErrorPassesThrough ==
    \A method \in RoutedMethods :
        BackendError(method) =>
            /\ Body.error # None
            /\ Body.error[1].code = LastReply[1].body[1].error[1].code
            /\ Body.error[1].message = LastReply[1].body[1].error[1].message

\* the ids of the rows of mcp_servers that are active
ActiveIds == {id \in DOMAIN mcp_servers : mcp_servers[id].is_active}

\* the ids of the backends the handler has sent a request to
Contacted == {gw.outbound[k].server : k \in DOMAIN gw.outbound}

\* the rows whose name, followed by "_", the called tool name starts with
PrefixOwners ==
    {id \in DOMAIN mcp_servers : starts_with(CalledName, mcp_servers[id].name \o <<"_">>)}

UnknownTool ==
    /\ Body.error # None
    /\ Body.error[1].code = -32602
    /\ Body.error[1].message = <<"Unknown tool: ">> \o CalledName

\* tools/list holds items of active rows only, and asks only them
ListsOnlyActive ==
    (Returned("tools/list") /\ StoreAnswered) =>
        /\ Contacted \subseteq ActiveIds
        /\ \A l \in DOMAIN Body.result[1].list[1] :
              /\ Body.result[1].list[1][l].server_id # None
              /\ Body.result[1].list[1][l].server_id[1] \in ActiveIds

\* C14 (as the specification states it): after a backend is set inactive or
\* deleted, every later tools/list omits its items and every later tools/call
\* with its prefix returns "Unknown tool" without contacting it.
C14_Original_InactivePrefixIsUnknown ==
    /\ ListsOnlyActive
    /\ ToolCalled =>
          \A id \in PrefixOwners \ ActiveIds : UnknownTool /\ id \notin Contacted

\* C14 (amended): a backend that is inactive or deleted is never contacted
\* and tools/list omits its items; tools/call with its prefix returns
\* "Unknown tool" unless the name also starts with the prefix of a backend
\* that is active, in which case the call goes to that backend; a backend
\* that is active (again) is asked by every tools/list and owns its prefix.
C14_OnlyActiveTakePart ==
    /\ Contacted \subseteq ActiveIds
    /\ ListsOnlyActive
    /\ (Returned("tools/list") /\ StoreAnswered) =>
          Contacted = {id \in ActiveIds : mcp_servers[id].protocol = "http"}
    /\ ToolCalled =>
          /\ (PrefixOwners \cap ActiveIds = {}) => UnknownTool /\ Contacted = {}
          /\ (PrefixOwners \cap ActiveIds # {}) =>
                /\ ~UnknownTool
                /\ Contacted \subseteq PrefixOwners \cap ActiveIds
                /\ (\A id \in PrefixOwners \cap ActiveIds :
                       mcp_servers[id].protocol = "http") => Cardinality(Contacted) = 1

\* tools/call has gone to the active backend "a" for a name that also
\* carries the prefix of a backend that is registered but inactive
C14_Witness ==
    /\ ToolCalled
    /\ PrefixOwners \ ActiveIds # {}
    /\ Cardinality(Contacted) = 1
    /\ Contacted \subseteq ActiveIds
    /\ Body.result # None

\* ========================================================================
\* Properties of the descriptor store
\* ========================================================================
\* C15 (as the specification states it): after any sequence of create,
\* update (rename and re-activation included) and delete, no two active
\* descriptors share a name.
C15_Original_ActiveNamesAreUnique ==
    \A id, other \in ActiveIds :
        id # other => mcp_servers[id].name # mcp_servers[other].name

\* the row id as update(id, patch) leaves it
Updated(id, patch) == mcp_servers_update(id, patch)[id]

\* C16: update(id, patch) stores each value the patch carries in its own
\* field and sets updated_at, keeps every field the patch does not carry
\* (a patch that carries none changes nothing), keeps created_at, and leaves
\* every other descriptor as it was; for every subset of the seven fields,
\* in every state in which PUT /api/v1/mcp/servers/{id} is served.
C16_UpdateWritesExactlyThePatch ==
    (gw.pc = "idle" /\ servers_updated < MaxUpdates) =>
    \A id \in DOMAIN mcp_servers, patch \in AdminUpdateRequests :
        LET old == mcp_servers[id]
            new == Updated(id, patch)
        IN  /\ DOMAIN mcp_servers_update(id, patch) = DOMAIN mcp_servers
            /\ \A other \in DOMAIN mcp_servers \ {id} :
                  mcp_servers_update(id, patch)[other] = mcp_servers[other]
            /\ new.name = IF patch.name = None THEN old.name ELSE patch.name[1]
            /\ new.url = IF patch.url = None THEN old.url ELSE patch.url[1]
            /\ new.protocol = IF patch.protocol = None THEN old.protocol
                              ELSE patch.protocol[1]
            /\ new.command = IF patch.command = None THEN old.command ELSE patch.command
            /\ new.args = IF patch.args = None THEN old.args ELSE patch.args
            /\ new.env = IF patch.env = None THEN old.env ELSE patch.env
            /\ new.is_active = IF patch.is_active = None THEN old.is_active
                               ELSE patch.is_active[1]
            /\ new.created_at = old.created_at
            /\ new.updated_at = IF \A f \in DOMAIN patch : patch[f] = None
                                THEN old.updated_at ELSE now

\* a descriptor created at 0 has been given a protocol and a command at
\* 1000, its name, url, args, env and flag being those of its creation,
\* beside a descriptor that was not updated
C16_Witness ==
    \E id, other \in DOMAIN mcp_servers :
        /\ id # other
        /\ mcp_servers[id].created_at = 0
        /\ mcp_servers[id].updated_at = TickSeconds
        /\ mcp_servers[id].protocol = "stdio"
        /\ mcp_servers[id].command = Some("cmd")
        /\ mcp_servers[id].name = <<"a", "_", "b">>
        /\ mcp_servers[id].args = None
        /\ mcp_servers[id].env = None
        /\ mcp_servers[id].is_active
        /\ validate_url_for_ssrf(mcp_servers[id].url) = "Ok"
        /\ mcp_servers[other].updated_at = mcp_servers[other].created_at
        /\ servers_updated = 1

\* C17 (as the specification states it): POST and PUT on
\* /api/v1/mcp/servers validate the URL with the SSRF guard before they
\* write, so no stored descriptor holds a URL the guard rejects.
C17_Original_NoStoredUrlTheGuardRejects ==
    \A id \in DOMAIN mcp_servers : validate_url_for_ssrf(mcp_servers[id].url) = "Ok"

\* ========================================================================
\* Properties of the SSRF guard
\* ========================================================================
\* the first 24 bits of an address, as a number
Top24(octets) == (octets[1] * 256 + octets[2]) * 256 + octets[3]

\* the address lies in base/len: its first len bits are those of base
InCidr(octets, base, len) ==
    IF len <= 24
    THEN Top24(octets) \div 2 ^ (24 - len) = Top24(base) \div 2 ^ (24 - len)
    ELSE /\ Top24(octets) = Top24(base)
         /\ octets[4] \div 2 ^ (32 - len) = base[4] \div 2 ^ (32 - len)

\* the blocked ranges: 127/8, 10/8, 172.16/12, 192.168/16, 169.254/16,
\* 100.64/10, 192.0.0/24, 198.18/15, the documentation ranges, 224/4, 240/4,
\* broadcast, 0.0.0.0
BlockedRanges ==
    {<<<<127, 0, 0, 0>>, 8>>, <<<<10, 0, 0, 0>>, 8>>, <<<<172, 16, 0, 0>>, 12>>,
     <<<<192, 168, 0, 0>>, 16>>, <<<<169, 254, 0, 0>>, 16>>, <<<<100, 64, 0, 0>>, 10>>,
     <<<<192, 0, 0, 0>>, 24>>, <<<<198, 18, 0, 0>>, 15>>, <<<<192, 0, 2, 0>>, 24>>,
     <<<<198, 51, 100, 0>>, 24>>, <<<<203, 0, 113, 0>>, 24>>, <<<<224, 0, 0, 0>>, 4>>,
     <<<<240, 0, 0, 0>>, 4>>, <<<<255, 255, 255, 255>>, 32>>, <<<<0, 0, 0, 0>>, 32>>}

InBlockedRange(octets) == \E r \in BlockedRanges : InCidr(octets, r[1], r[2])

\* the IPv4 address an IPv6 literal ::ffff:a.b.c.d embeds
Embedded(host) ==
    <<host.segments[7] \div 256, host.segments[7] % 256,
      host.segments[8] \div 256, host.segments[8] % 256>>

IsMapped(host) ==
    /\ host.kind = "Ipv6"
    /\ \A n \in 1..5 : host.segments[n] = 0
    /\ host.segments[6] = 65535

\* C18: a URL with a literal IPv4 host is rejected if its scheme is not http
\* or https or its address lies in a blocked range, and accepted otherwise;
\* an IPv4-mapped IPv6 literal is accepted exactly when the URL of the same
\* scheme with its embedded IPv4 address is.
C18_GuardIsSoundOnLiterals ==
    probe # None =>
        LET url == probe[1].url
            wanted(octets) == url.scheme \in {"http", "https"} /\ ~InBlockedRange(octets)
        IN  /\ url.host.kind = "Ipv4" =>
                  (probe[1].result = "Ok" <=> wanted(url.host.octets))
            /\ IsMapped(url.host) =>
                  /\ probe[1].result = "Ok" <=> wanted(Embedded(url.host))
                  /\ probe[1].result = "Ok" <=>
                        validate_url_for_ssrf(Url(url.scheme,
                            [kind |-> "Ipv4", octets |-> Embedded(url.host)])) = "Ok"

\* the guard has rejected https://[::ffff:100.127.255.254], the last address
\* but one of 100.64/10
C18_Witness ==
    /\ probe # None
    /\ probe[1].url.scheme = "https"
    /\ IsMapped(probe[1].url.host)
    /\ Embedded(probe[1].url.host) = <<100, 127, 255, 254>>
    /\ probe[1].result = "PrivateIpBlocked"

\* ========================================================================
\* Properties of the event stream
\* ========================================================================
\* the clients the broadcast has gone past
Visited == {bc.order[n] : n \in 1..(bc.i - 1)}

\* (a) the type tag of the event is in the type set, or there is no set
TypeAdmitted(f, e) == f.event_types = None \/ e.type \in f.event_types[1]

\* (b) the event is not system_health, or include_system is set
SystemAdmitted(f, e) == e.type # "system_health" \/ f.include_system

\* (c) the event carries no backend id, or the set of backend ids is empty,
\* or the id is in it
ServerAdmitted(f, e) ==
    \/ "server_id" \notin DOMAIN e
    \/ f.server_ids = {}
    \/ e.server_id \in f.server_ids

\* C19: broadcast calls tx.send for a client exactly when (a) the event's
\* type tag is in the filter's type set or the set is absent, and (b) the
\* event is not system_health or include_system is true, and (c) the event
\* carries no backend id, or the filter's set of backend ids is empty, or
\* holds the id.
C19_ShouldSendIffAllThreeAdmit ==
    \A client_id \in Visited \cap DOMAIN client_channels :
        LET f == client_channels[client_id].filters
            e == bc.event[1]
        IN  client_id \in bc.sent
               <=> (TypeAdmitted(f, e) /\ SystemAdmitted(f, e) /\ ServerAdmitted(f, e))

\* system_health has been broadcast to two clients whose type sets list it:
\* the one with include_system false was passed over, the other was sent it
C19_Witness ==
    /\ bc.pc = "returned"
    /\ bc.event[1].type = "system_health"
    /\ \E c, d \in Visited \cap DOMAIN client_channels :
          /\ client_channels[c].filters.event_types # None
          /\ "system_health" \in client_channels[c].filters.event_types[1]
          /\ ~client_channels[c].filters.include_system
          /\ c \notin bc.sent
          /\ client_channels[d].filters.event_types # None
          /\ client_channels[d].filters.include_system
          /\ d \in bc.sent

\* C20 (as the specification states it): broadcast never blocks: whatever
\* the queues of the subscribers hold, the broadcast in progress can take
\* its next turn, and return, without a step of any subscriber.
C20_Original_BroadcastNeverBlocks ==
    bc.pc = "iterating" => ENABLED broadcast_next

ServerIds == 1..MaxSpawns

\* C22: when stop_server(id) returns for a registered id, list_servers and
\* get_server no longer report id, its child has terminated (it was sent the
\* shutdown notification and exited in time, or it was killed, or it had
\* exited before), and every other entry of the registry is as it was: the
\* call takes the handle out and writes the notification, nothing changes
\* the registry until its wait ends, and the wait leaves the child
\* terminated.
C22_StopRemovesAndTerminates ==
    [][/\ \A server_id \in ServerIds :
            (server_id \in DOMAIN manager_servers /\ stop_server(server_id))
            => /\ mgr'.stopping = server_id
               /\ get_server(server_id)' = None
               /\ children[server_id].state = "running"
                     => children'[server_id].stdin =
                            Append(children[server_id].stdin, shutdown)
               /\ DOMAIN manager_servers' = DOMAIN manager_servers \ {server_id}
               /\ \A k \in DOMAIN manager_servers' :
                     manager_servers'[k] = manager_servers[k]
       /\ mgr.stopping # 0 => manager_servers' = manager_servers
       /\ \A graceful \in BOOLEAN :
            (mgr.stopping # 0 /\ mgr.pc # "wait" /\ stop_server_wait(graceful))
            => /\ get_server(mgr.stopping)' = None
               /\ \A info \in list_servers' : info.id # mgr.stopping
               /\ children'[mgr.stopping].state \in {"exited", "killed"}
               /\ children[mgr.stopping].state = "running"
                     => children'[mgr.stopping].state =
                            IF graceful THEN "exited" ELSE "killed"
               /\ mgr'.returned[1].op = "stop_server"
               /\ mgr'.returned[1].id = mgr.stopping
               /\ mgr'.returned[1].result.ok]_vars

\* stop_server has returned for a backend whose child did not exit in time
\* and was killed, while another backend is still registered and running
C22_Witness ==
    /\ mgr.returned # None
    /\ mgr.returned[1].op = "stop_server"
    /\ mgr.returned[1].id \in DOMAIN children
    /\ mgr.returned[1].id \notin DOMAIN manager_servers
    /\ children[mgr.returned[1].id].state = "killed"
    /\ children[mgr.returned[1].id].stdin = <<shutdown>>
    /\ \E k \in DOMAIN manager_servers :
          /\ manager_servers[k].status = <<"Running">>
          /\ children[k].state = "running"

\* C23: when restart_server(id), called for a registered id, returns Ok(new),
\* the old id is not in the registry, its process has terminated, new differs
\* from id, and new is registered with status Running, the config of its
\* handle and the config its process was started from being the config the
\* old process was started from.
C23_RestartReplacesTheBackend ==
    [][(mgr.pc = "spawn" /\ restart_server_spawn(TRUE))
          => /\ mgr'.returned[1].op = "restart_server"
             /\ mgr'.returned[1].id = mgr.id
             /\ mgr'.returned[1].result.ok
             /\ LET new == mgr'.returned[1].result.val[1]
                IN  /\ new # mgr.id
                    /\ mgr.id \notin DOMAIN manager_servers'
                    /\ children'[mgr.id].state # "running"
                    /\ new \in DOMAIN manager_servers'
                    /\ manager_servers'[new].status = <<"Running">>
                    /\ manager_servers'[new].config = children[mgr.id].config
                    /\ children'[new].config = children[mgr.id].config
                    /\ children'[new].state = "running"]_vars

\* restart_server has returned Ok(3) for backend 1, started as "echo", while
\* backend 2, started as "files", is registered: 1 is gone and killed, 3 is
\* registered as "echo"
C23_Witness ==
    /\ mgr.returned # None
    /\ mgr.returned[1].op = "restart_server"
    /\ mgr.returned[1].id = 1
    /\ mgr.returned[1].result.ok
    /\ mgr.returned[1].result.val = Some(3)
    /\ children[1].state = "killed"
    /\ children[1].config.name = "echo"
    /\ DOMAIN manager_servers = {2, 3}
    /\ manager_servers[2].config.name = "files"
    /\ manager_servers[3].config.name = "echo"

\* C24: a call for an id that is not in the registry leaves the registry and
\* the processes as they are: send_message and restart_server return the
\* NotFound error (and restart_server goes no further), stop_server returns
\* Ok.
C24_AbsentIdChangesNothing ==
    [][\A server_id \in ServerIds :
          server_id \notin DOMAIN manager_servers
          => /\ (\E message \in Messages : send_message(server_id, message))
                   => /\ UNCHANGED <<manager_servers, children>>
                      /\ ~mgr'.returned[1].result.ok
                      /\ mgr'.returned[1].result.err.kind = "NotFound"
             /\ restart_server(server_id)
                   => /\ UNCHANGED <<manager_servers, children>>
                      /\ mgr'.pc = "idle"
                      /\ ~mgr'.returned[1].result.ok
                      /\ mgr'.returned[1].result.err.kind = "NotFound"
             /\ stop_server(server_id)
                   => /\ UNCHANGED <<manager_servers, children>>
                      /\ mgr'.returned[1].op = "stop_server"
                      /\ mgr'.returned[1].result.ok]_vars

\* send_message has returned NotFound for backend 1, which was spawned and
\* stopped before, while backend 2 is registered
C24_Witness ==
    /\ mgr.returned # None
    /\ mgr.returned[1].op = "send_message"
    /\ mgr.returned[1].id = 1
    /\ ~mgr.returned[1].result.ok
    /\ mgr.returned[1].result.err.kind = "NotFound"
    /\ 1 \in DOMAIN children
    /\ children[1].state = "exited"
    /\ DOMAIN manager_servers = {2}

\* C25 (as the specification states it): a sweep of monitor_servers that
\* finds a registered backend running whose child has exited sets its status
\* to Failed and hands an event to the stream manager, which then counts one
\* more call of broadcast.
C25_Original_SweepEmitsLifecycleEvent ==
    [][(/\ monitor_servers
        /\ \E server_id \in DOMAIN manager_servers :
              /\ manager_servers[server_id].status = <<"Running">>
              /\ children[server_id].state = "exited")
          => /\ \A server_id \in DOMAIN manager_servers :
                   children[server_id].state = "exited"
                      => manager_servers'[server_id].status[1] = "Failed"
             /\ events_broadcast' > events_broadcast]_vars

\* ========================================================================
\* Properties of routing and of the fan-out
\* ========================================================================
\* a routed request with an id and its token has returned after the rows of
\* mcp_servers were read
Routed(method) ==
    /\ Returned(method)
    /\ gw.request[1].params # None
    /\ Token(method, gw.request[1].params[1]) # None
    /\ StoreAnswered

\* the token of the routed request
RoutedToken(method) == Token(method, gw.request[1].params[1])[1]

\* the positions of the listed backends whose name, followed by the
\* separator, the token starts with
Matching(method) ==
    {k \in DOMAIN gw.servers :
        starts_with(RoutedToken(method), gw.servers[k].name \o <<Separator(method)>>)}

\* C26 (as the specification states it): when the token starts with
\* "<name><separator>" for more than one active backend, the request goes to
\* a backend with the longest such name, and what is forwarded is the token
\* without that longest prefix.
C26_Original_LongestPrefixWins ==
    \A method \in RoutedMethods :
        (Routed(method) /\ Cardinality(Matching(method)) > 1 /\ gw.outbound # <<>>)
        => \E k \in Matching(method) :
              /\ \A l \in Matching(method) :
                    Len(gw.servers[l].name) <= Len(gw.servers[k].name)
              /\ gw.outbound[1].server = gw.servers[k].id
              /\ Token(method, gw.outbound[1].request.params[1])[1] =
                    str_from(RoutedToken(method), Len(gw.servers[k].name) + 1)

\* C27 (as the specification states it): a routed request whose token
\* matches active backends, all of them reached over http and no two of one
\* name, causes exactly one outbound request, whatever the backend replies and however many
\* backends match.
C27_Original_ExactlyOneOutboundRequest ==
    \A method \in RoutedMethods :
        (/\ Routed(method)
         /\ Matching(method) # {}
         /\ \A k \in Matching(method) : gw.servers[k].protocol = "http"
         /\ \A k, l \in Matching(method) :
               k # l => gw.servers[k].name # gw.servers[l].name)
        => Len(gw.outbound) = 1

\* C28 (as the specification states it): a backend that does not answer does
\* not hold up a listing: once the 30 s of a silent backend have run out, the
\* request to every other active http backend has long been issued.
C28_Original_SilentBackendHoldsUpNoOne ==
    \A method \in ListMethods :
        (/\ gw.pc \in {"fan_out", "done"}
         /\ gw.request[1].method = method
         /\ \E k \in DOMAIN gw.replies :
               gw.replies[k] # None /\ gw.replies[k][1].transport = "timeout")
        => \A l \in DOMAIN gw.servers :
              gw.servers[l].protocol = "http" => gw.servers[l].id \in Contacted

\* C29 (as the specification states it): the requests forwarded to one
\* backend carry ids that differ from one another.
C29_Original_ForwardedIdsAreUnique ==
    \A id \in DOMAIN forwarded :
        \A k, l \in DOMAIN forwarded[id] :
            k # l => forwarded[id][k] # forwarded[id][l]

\* ========================================================================
\* Properties of the filters
\* ========================================================================
\* C30 (as the specification states it): a filter whose set of event types
\* is present and empty admits what the same filter without a set of event
\* types admits.
C30_Original_EmptyTypeSetAdmitsEveryType ==
    \A client_id \in Visited \cap DOMAIN client_channels :
        LET f == client_channels[client_id].filters
        IN  f.event_types = Some({})
            => (client_id \in bc.sent
                   <=> should_send([f EXCEPT !.event_types = None], bc.event[1]))

\* ========================================================================
\* Properties of re-activation
\* ========================================================================
\* C40: when a credential that is inactive is set active again, every token
\* issued for it that has not expired, which did not validate while the
\* credential was inactive, validates again, with the claims it was issued
\* with (the subject is the credential).
C40_ReactivationRevivesTokens ==
    [][\A id \in 1..MaxCreds :
          (id \in DOMAIN api_keys /\ ~api_keys[id].is_active /\ Activate(id))
          => \A t \in issued :
                (t.sub = UuidToString(id) /\ JwtDecodeOk(t, now))
                => /\ ~validate_token(t, TRUE).ok
                   /\ validate_token(t, TRUE).err.msg = "API key has been revoked"
                   /\ validate_token(t, TRUE)'.ok
                   /\ validate_token(t, TRUE)'.val = Some(Claims(t))
                   /\ Claims(t).sub = UuidToString(id)]_vars

\* the last request to POST /mcp was turned away because the credential of
\* its token was revoked; the credential is active again and the same token,
\* still unexpired, validates
C40_Witness ==
    /\ req.pc = "done"
    /\ req.route = "POST /mcp"
    /\ req.log # None
    /\ req.log[1].e.msg = "API key has been revoked"
    /\ req.header # None
    /\ req.header[1].rest \in issued
    /\ validate_token(req.header[1].rest, TRUE).ok
    /\ validate_token(req.header[1].rest, TRUE).val[1].sub = req.header[1].rest.sub

\* ========================================================================
\* Properties of the response identifier
\* ========================================================================
\* C39: every JSON-RPC response the gateway returns for a request with an id
\* carries that id, whatever the method and the outcome; it is neither the id
\* of the forwarded request nor the id of a reply of a backend.
C39_ResponseCarriesTheRequestId ==
    (gw.pc = "done" /\ gw.request[1].id # None)
    => /\ gw.resp # None
       /\ gw.resp[1].body # None
       /\ Body.id = gw.request[1].id[1]
       /\ Body.id # ForwardedId
       /\ \A k \in 1..Len(gw.replies) :
            (gw.replies[k] # None /\ gw.replies[k][1].body # None)
            => Body.id # gw.replies[k][1].body[1].id

\* a resources/read was answered with the result of a backend whose reply
\* carried the id of the forwarded request
C39_Witness ==
    /\ Returned("resources/read")
    /\ Len(gw.replies) >= 1
    /\ gw.replies[Len(gw.replies)] # None
    /\ gw.replies[Len(gw.replies)][1].body # None
    /\ gw.replies[Len(gw.replies)][1].body[1].id = ForwardedId
    /\ gw.replies[Len(gw.replies)][1].body[1].result # None
    /\ Body.result = gw.replies[Len(gw.replies)][1].body[1].result
    /\ Body.id = Number(7)

\* ========================================================================
\* Properties of failed handles
\* ========================================================================
\* C32: the manager restarts nothing on its own.  A handle whose status is
\* Failed keeps that status, its config and its id in the registry over
\* every step but a stop_server of that id or the stop of a restart_server
\* of that id; a sweep of monitor_servers adds and removes no handle, turns
\* no status back to Running, and starts and stops no process.
C32_FailedStaysFailedUntilStopOrRestart ==
    [][/\ \A id \in DOMAIN manager_servers :
            manager_servers[id].status[1] = "Failed"
            => \/ /\ id \in DOMAIN manager_servers'
                  /\ manager_servers'[id] = manager_servers[id]
               \/ stop_server(id)
               \/ /\ mgr.pc = "stop"
                  /\ mgr.id = id
                  /\ restart_server_stop
       /\ monitor_servers
            => /\ DOMAIN manager_servers' = DOMAIN manager_servers
               /\ children' = children
               /\ spawned' = spawned
               /\ \A id \in DOMAIN manager_servers :
                     manager_servers'[id].status[1] = "Running"
                     => manager_servers[id].status[1] = "Running"]_vars

\* a handle is Failed, its child has exited, and a caller that wrote to it
\* afterwards got the write error: the handle is still there, still Failed
C32_Witness ==
    \E id \in DOMAIN manager_servers :
        /\ manager_servers[id].status[1] = "Failed"
        /\ children[id].state = "exited"
        /\ mgr.returned # None
        /\ mgr.returned[1].op = "send_message"
        /\ mgr.returned[1].id = id
        /\ ~mgr.returned[1].result.ok

\* ========================================================================
\* Properties of the lock of the registry
\* ========================================================================
\* C33 (as the specification states it): the lock of the registry is never
\* held across the I/O of a child: while a stop_server is waiting for its
\* child to exit, a stop_server of any other registered backend can take the
\* lock and go ahead.
C33_Original_LockNotHeldAcrossChildIo ==
    mgr.stopping # 0
    => \A other \in DOMAIN manager_servers : ENABLED stop_server(other)

\* ========================================================================
\* Properties of the statuses in the registry
\* ========================================================================
\* C37: every handle in the registry has status Running or Failed and has a
\* child that was started: list_servers and get_server never report Starting
\* or Stopped.
C37_RegisteredIsRunningOrFailed ==
    /\ \A server_id \in DOMAIN manager_servers :
          /\ manager_servers[server_id].status[1] \in {"Running", "Failed"}
          /\ server_id \in DOMAIN children
          /\ get_server(server_id)[1].status[1] \in {"Running", "Failed"}
    /\ \A info \in list_servers : info.status[1] \in {"Running", "Failed"}

\* a spawn_server has just failed and registered nothing; one handle is
\* Failed, and a backend that was stopped is no longer registered
C37_Witness ==
    /\ mgr.returned # None
    /\ mgr.returned[1].op = "spawn_server"
    /\ ~mgr.returned[1].result.ok
    /\ DOMAIN manager_servers # {}
    /\ DOMAIN manager_servers # DOMAIN children
    /\ DOMAIN children = 1..spawned
    /\ \E server_id \in DOMAIN manager_servers :
          manager_servers[server_id].status[1] = "Failed"
    /\ \E server_id \in DOMAIN children \ DOMAIN manager_servers :
          /\ children[server_id].state = "killed"
          /\ children[server_id].stdin = <<shutdown>>

\* ========================================================================
\* Properties of a restart whose spawn fails
\* ========================================================================
\* C38: when the spawn of restart_server(id) fails, restart_server returns
\* the Process error; the old handle was taken out and its process stopped
\* before, nothing is registered in its place, and the registry is left as
\* the stop left it.
C38_FailedRespawnLeavesNoBackend ==
    [][(mgr.pc = "spawn" /\ restart_server_spawn(FALSE))
          => /\ mgr'.pc = "idle"
             /\ mgr'.returned[1].op = "restart_server"
             /\ mgr'.returned[1].id = mgr.id
             /\ ~mgr'.returned[1].result.ok
             /\ mgr'.returned[1].result.err.kind = "Process"
             /\ mgr.id \notin DOMAIN manager_servers'
             /\ get_server(mgr.id)' = None
             /\ children'[mgr.id].state # "running"
             /\ manager_servers' = manager_servers
             /\ children' = children
             /\ spawned' = spawned]_vars

\* restart_server of backend 1, the only backend, has returned the spawn
\* error: 1 was sent the shutdown notification and has terminated, and the
\* registry is empty
C38_Witness ==
    /\ mgr.returned # None
    /\ mgr.returned[1].op = "restart_server"
    /\ mgr.returned[1].id = 1
    /\ ~mgr.returned[1].result.ok
    /\ mgr.returned[1].result.err.kind = "Process"
    /\ spawned = 1
    /\ children[1].state \in {"exited", "killed"}
    /\ children[1].stdin = <<shutdown>>
    /\ manager_servers = <<>>

\* ========================================================================
\* Properties of the events of servers
\* ========================================================================
\* C31: handle_mcp_event(server_id, e) sends e on the channel of server_id
\* if one is registered and on no other; it goes on to broadcast e only when
\* e is McpServerStarted or McpServerStopped, and for the other variants
\* changes no client's channel and begins no broadcast (a call that sends
\* on no channel and begins no broadcast changes nothing at all and is
\* passed over).  What the broadcasts
\* so begun put in the channel of a client is a McpServerStarted or
\* McpServerStopped that the filters of the client pass.
C31_OnlyStartedAndStoppedReachTheClients ==
    /\ [][(server_channels' # server_channels \/ events_broadcast' # events_broadcast)
          => \A order \in IterationOrders(DOMAIN client_channels) :
               \A server_id \in ServerChannelIds, event \in ServerEvents :
                  handle_mcp_event(server_id, event, order)
                  => /\ client_channels' = client_channels
                     /\ \A other \in ServerChannelIds \ {server_id} :
                           server_channels'[other] = server_channels[other]
                     /\ server_channels'[server_id] =
                           IF server_channels[server_id] = None THEN None
                           ELSE Some(server_channels[server_id][1] + 1)
                     /\ IF event.variant \in {"McpServerStarted", "McpServerStopped"}
                        THEN /\ bc'.event = Some(event)
                             /\ bc'.order = order
                             /\ events_broadcast' = events_broadcast + 1
                        ELSE /\ bc' = bc
                             /\ events_broadcast' = events_broadcast]_vars
    /\ [](\A client_id \in DOMAIN client_channels :
            \A k \in DOMAIN client_channels[client_id].queue :
               LET queued == client_channels[client_id].queue[k]
               IN  queued.seq # 0
                   => /\ queued.event.variant \in {"McpServerStarted", "McpServerStopped"}
                      /\ should_send(client_channels[client_id].filters, queued.event))

\* the start of "s2" was published under "s2", whose channel is registered
\* as is that of "s1": it was sent on the channel of "s2" alone, the client
\* with the default filters has it in its channel, the client whose filters
\* name "s1" was passed over
C31_Witness ==
    /\ bc.pc = "returned"
    /\ bc.event # None
    /\ bc.event[1].variant = "McpServerStarted"
    /\ bc.event[1].server_id = "s2"
    /\ events_broadcast = 1
    /\ server_channels["s2"] = Some(1)
    /\ server_channels["s1"] = Some(0)
    /\ DOMAIN client_channels = {1, 2}
    /\ \E c, d \in DOMAIN client_channels :
          /\ client_channels[c].filters.server_ids = {}
          /\ c \in bc.sent
          /\ Len(client_channels[c].queue) = 1
          /\ client_channels[c].queue[1].event = bc.event[1]
          /\ client_channels[d].filters.server_ids = {"s1"}
          /\ d \notin bc.sent
          /\ client_channels[d].queue = <<>>

\* ========================================================================
\* Properties of the registry of clients
\* ========================================================================
\* C34: register_client returns an id no call returned before and adds one
\* to client_count; unregister_client of a registered id takes one from it
\* and leaves the other connections as they are; no other step changes the
\* set of registered ids, so client_count is the number of ids registered
\* and not yet unregistered.  An id that was unregistered never comes back,
\* and a broadcast in progress visits registered clients only: nothing is
\* sent to a client after its unregister_client has returned.
C34_FreshIdsAndExactCount ==
    /\ [][/\ (\E filters \in ServerEventFilters : register_client(filters))
               => /\ clients_registered' \notin 1..clients_registered
                  /\ clients_registered' \notin DOMAIN client_channels
                  /\ DOMAIN client_channels' =
                        DOMAIN client_channels \cup {clients_registered'}
                  /\ client_count' = client_count + 1
          /\ \A client_id \in DOMAIN client_channels :
                unregister_client(client_id)
                => /\ DOMAIN client_channels' = DOMAIN client_channels \ {client_id}
                   /\ client_count' = client_count - 1
                   /\ \A other \in DOMAIN client_channels' :
                         client_channels'[other] = client_channels[other]
          /\ DOMAIN client_channels' # DOMAIN client_channels
               => \/ \E filters \in ServerEventFilters : register_client(filters)
                  \/ \E client_id \in DOMAIN client_channels :
                        unregister_client(client_id)
          /\ \A client_id \in 1..clients_registered :
                client_id \notin DOMAIN client_channels
                => client_id \notin DOMAIN client_channels']_vars
    /\ [](/\ DOMAIN client_channels \subseteq 1..clients_registered
          /\ client_count <= clients_registered
          /\ bc.pc = "iterating"
               => \A k \in DOMAIN bc.order : bc.order[k] \in DOMAIN client_channels)

\* two clients were registered and the first was unregistered; the broadcast
\* made after that visited the second alone, which has the event
C34_Witness ==
    /\ clients_registered = 2
    /\ DOMAIN client_channels = {2}
    /\ client_count = 1
    /\ bc.pc = "returned"
    /\ bc.order = <<2>>
    /\ bc.sent = {2}
    /\ client_channels[2].queue # <<>>
    /\ client_channels[2].queue[Len(client_channels[2].queue)].event = bc.event[1]

\* C35 (as the specification states it): the session of a subscriber ends
\* when it disconnects: at the latest when a broadcast whose filters pass
\* finds the Receiver of a client gone, the client is taken out of the
\* registry, so that it is no longer counted and no longer visited.
C35_Original_DisconnectEndsTheSession ==
    [][(/\ bc.pc = "iterating"
        /\ ~client_channels[bc.order[bc.i]].rx
        /\ should_send(client_channels[bc.order[bc.i]].filters, bc.event[1])
        /\ broadcast_next)
          => /\ bc.order[bc.i] \notin DOMAIN client_channels'
             /\ client_count' = client_count - 1]_vars

\* C36 (as the specification states it): every call of register_client and
\* of unregister_client returns in the end, also while the channel of some
\* client is full and its holder takes nothing from it: a broadcast in
\* progress, which holds the read lock of the registry the two calls wait
\* for, always comes to release it.
C36_Original_RegistryCallsAlwaysReturn ==
    (bc.pc = "iterating") ~> (bc.pc # "iterating")


====
